---- MODULE Spec2Model ----
(***************************************************************************)
(* Model of the mosc parser front end: the Reader (cursor bookkeeping over *)
(* an immutable UTF-8 text), the ParserContext (ordered diagnostics), the  *)
(* cursor_manager combinator and the grammar rules built on them.          *)
(*                                                                         *)
(* The text is a sequence of bytes (0..255) that is valid UTF-8; a char is *)
(* its code point.  Every grammar rule is an operator from the parse state *)
(* at entry to a result [sig, s, node]; sig is "Ok", "NotFound" or "Error".*)
(* `saved` holds the cursors a session took from Reader::save.             *)
(***************************************************************************)
EXTENDS Integers, Sequences, FiniteSets, TLC

VARIABLES content, reader, context, pc, last, saved

vars == <<content, reader, context, pc, last, saved>>

(***************************************************************************)
(* Bounds of the model.                                                    *)
(***************************************************************************)
MaxFrags == 3
MaxFileFrags == 4

MaxCommentFrags == 4
MaxNumberFrags == 3

MaxReaderFrags == 3
MaxSaved == 1

MaxNodeFrags == 3

(***************************************************************************)
(* Byte helpers (bytecount::num_chars, memchr) and UTF-8 decoding, as used *)
(* by Reader and Span.                                                     *)
(***************************************************************************)
RECURSIVE num_chars(_)
num_chars(bytes) ==
    IF bytes = <<>> THEN 0
    ELSE (IF Head(bytes) \div 64 = 2 THEN 0 ELSE 1) + num_chars(Tail(bytes))

RECURSIVE memchr_count(_, _)
memchr_count(b, bytes) ==
    IF bytes = <<>> THEN 0
    ELSE (IF Head(bytes) = b THEN 1 ELSE 0) + memchr_count(b, Tail(bytes))

\* Index (0-based) of the last occurrence of b in bytes, or -1 for None.
memrchr(b, bytes) ==
    LET hits == {i \in 1..Len(bytes) : bytes[i] = b}
    IN IF hits = {} THEN -1 ELSE (CHOOSE i \in hits : \A j \in hits : j <= i) - 1

\* Index (0-based) of the first occurrence of b in bytes, or -1 for None.
memchr(b, bytes) ==
    LET hits == {i \in 1..Len(bytes) : bytes[i] = b}
    IN IF hits = {} THEN -1 ELSE (CHOOSE i \in hits : \A j \in hits : i <= j) - 1

\* char::len_utf8 of the char whose first byte is b.
len_utf8(b) ==
    IF b < 128 THEN 1 ELSE IF b < 224 THEN 2 ELSE IF b < 240 THEN 3 ELSE 4

\* The code point of the char that starts at byte offset off (0-based).
char_at(text, off) ==
    LET b0 == text[off + 1]
        n == len_utf8(b0)
    IN IF n = 1 THEN b0
       ELSE IF n = 2 THEN (b0 % 32) * 64 + (text[off + 2] % 64)
       ELSE IF n = 3 THEN (b0 % 16) * 4096 + (text[off + 2] % 64) * 64
                          + (text[off + 3] % 64)
       ELSE (b0 % 8) * 262144 + (text[off + 2] % 64) * 4096
            + (text[off + 3] % 64) * 64 + (text[off + 4] % 64)

\* &text[from..to] with byte offsets.
slice(text, from, to) == SubSeq(text, from + 1, to)

starts_with(text, prefix) ==
    /\ Len(prefix) <= Len(text)
    /\ SubSeq(text, 1, Len(prefix)) = prefix

(***************************************************************************)
(* Cursor and Span.                                                        *)
(***************************************************************************)
Cursor_new(offset, char_offset, line, column) ==
    [offset |-> offset, char_offset |-> char_offset, line |-> line,
     column |-> column]

Span_new(start_cursor, end_cursor) ==
    [start_cursor |-> start_cursor, end_cursor |-> end_cursor]

Span_content(span) ==
    slice(content, span.start_cursor.offset, span.end_cursor.offset)

\* Span::lines with the line break looked for from the char at the start of
\* the span on.
Span_lines_from_start_char(span) ==
    LET before == memrchr(10, slice(content, 0,
                                    IF span.start_cursor.offset < Len(content)
                                    THEN span.start_cursor.offset + 1
                                    ELSE span.start_cursor.offset))
        after == memchr(10, slice(content, span.end_cursor.offset, Len(content)))
    IN [start_index |-> IF before >= 0 THEN before + 1 ELSE 0,
        end_index |-> IF after >= 0 THEN after + span.end_cursor.offset
                      ELSE Len(content)]

\* Span::lines returns &content[start_index..end_index]: the two indexes.
Span_lines(span) ==
    LET before == memrchr(10, slice(content, 0, span.start_cursor.offset))
        after == memchr(10, slice(content, span.end_cursor.offset, Len(content)))
    IN [start_index |-> IF before >= 0 THEN before + 1 ELSE 0,
        end_index |-> IF after >= 0 THEN after + span.end_cursor.offset
                      ELSE Len(content)]

\* Cursor::belongs_to, for a cursor kept with the id of the reader it is of.
belongs_to(cursor, reader_id) == cursor.reader_id = reader_id

(***************************************************************************)
(* Reader.  The parse state s threads the reader's cursor (cur) and the    *)
(* context (msgs, ignore) through the rules, together with the record      *)
(* of the rule calls made so far (log, kids).                              *)
(***************************************************************************)
Reader_new == Cursor_new(0, 0, 1, 1)

remaining_content(cur) == slice(content, cur.offset, Len(content))

remaining_length(cur) == Len(content) - cur.offset

\* The column counted in bytes, not in chars, after a line break.
consume_column_in_bytes(new_offset, pos) ==
    LET start_position == IF pos >= 0 THEN new_offset - pos ELSE new_offset + 1
    IN Len(slice(content, new_offset - (start_position - 1), new_offset)) + 1

\* The column after a consume that crossed a line break; pos is the index of
\* the last line break before new_offset, or -1.
consume_column(new_offset, pos) ==
    LET start_position == IF pos >= 0 THEN new_offset - pos ELSE new_offset + 1
    IN num_chars(slice(content, new_offset - (start_position - 1),
                       new_offset)) + 1

consume_fragment(cur, new_offset, consumed_fragment, additional_lines) ==
    Cursor_new(new_offset,
               cur.char_offset + num_chars(consumed_fragment),
               cur.line + additional_lines,
               IF additional_lines = 0
               THEN cur.column + num_chars(consumed_fragment)
               ELSE consume_column(new_offset,
                                   memrchr(10, slice(content, 0, new_offset))))

consume(cur, count) ==
    IF count = 0 THEN cur
    ELSE consume_fragment(
             cur, cur.offset + count,
             slice(content, cur.offset, cur.offset + count),
             memchr_count(10, slice(content, cur.offset, cur.offset + count)))

RECURSIVE check_inside(_, _)
check_inside(char, interval) ==
    IF interval = <<>> THEN FALSE
    ELSE IF char < Head(interval)[1] THEN FALSE
    ELSE IF Head(interval)[1] <= char /\ char <= Head(interval)[2] THEN TRUE
    ELSE check_inside(char, Tail(interval))

continues_with(cur, text) == starts_with(remaining_content(cur), text)

\* The length in bytes of the matched char, or 0 for None.
continues_with_one_of(cur, interval) ==
    IF remaining_length(cur) = 0 THEN 0
    ELSE IF check_inside(char_at(content, cur.offset), interval)
         THEN len_utf8(content[cur.offset + 1])
         ELSE 0

\* The length in bytes of the matched text from byte offset off, or 0 for None.
RECURSIVE continues_with_one_or_more_of_from(_, _)
continues_with_one_or_more_of_from(off, interval) ==
    IF off >= Len(content) THEN 0
    ELSE IF ~check_inside(char_at(content, off), interval) THEN 0
    ELSE len_utf8(content[off + 1])
         + continues_with_one_or_more_of_from(off + len_utf8(content[off + 1]),
                                              interval)

continues_with_one_or_more_of(cur, interval) ==
    continues_with_one_or_more_of_from(cur.offset, interval)

\* The read that consumes the first byte of the text when only that matches.
read_partial(cur, text) ==
    IF continues_with(cur, text)
    THEN [ok |-> TRUE, cur |-> consume(cur, Len(text))]
    ELSE IF text # <<>> /\ continues_with(cur, <<Head(text)>>)
         THEN [ok |-> FALSE, cur |-> consume(cur, 1)]
         ELSE [ok |-> FALSE, cur |-> cur]

\* Each read returns [ok, cur]: whether it matched and the cursor after it.
read(cur, text) ==
    IF continues_with(cur, text)
    THEN [ok |-> TRUE, cur |-> consume(cur, Len(text))]
    ELSE [ok |-> FALSE, cur |-> cur]

\* The consume of a match of n bytes; 0 bytes is None.
read_matched(cur, n) ==
    IF n > 0 THEN [ok |-> TRUE, cur |-> consume(cur, n)]
    ELSE [ok |-> FALSE, cur |-> cur]

read_one_of(cur, interval) ==
    read_matched(cur, continues_with_one_of(cur, interval))

read_one_or_more_of(cur, interval) ==
    read_matched(cur, continues_with_one_or_more_of(cur, interval))

read_many_of(cur, interval) == read_one_or_more_of(cur, interval)

\* The number of bytes before the first occurrence of text in the remaining
\* content, or -1 when it does not occur.
find_first(cur, hits) ==
    IF hits = {} THEN -1
    ELSE (CHOOSE i \in hits : \A j \in hits : i <= j) - cur.offset

find(cur, text) ==
    find_first(cur, {i \in cur.offset..(Len(content) - Len(text)) :
                        starts_with(slice(content, i, Len(content)), text)})

\* read_until(text, until_eof): consumes up to, not through, the first
\* occurrence of text; without one it consumes to the end of the input when
\* until_eof is set and fails without moving otherwise.
read_until_found(cur, until_eof, n) ==
    IF n >= 0 THEN [ok |-> TRUE, cur |-> consume(cur, n)]
    ELSE IF until_eof
         THEN [ok |-> TRUE, cur |-> consume(cur, remaining_length(cur))]
         ELSE [ok |-> FALSE, cur |-> cur]

read_until(cur, text, until_eof) ==
    read_until_found(cur, until_eof, find(cur, text))

substring(from, to) ==
    IF from.offset <= to.offset THEN Span_new(from, to) ELSE Span_new(to, from)

substring_to_current(cur, from) ==
    IF from.offset <= cur.offset THEN Span_new(from, cur)
    ELSE Span_new(cur, from)

(***************************************************************************)
(* ParserContext and the diagnostics.                                      *)
(***************************************************************************)
generate_error_log(error_type) == [kind |-> "error", id |-> error_type]

generate_warning_log(warning_type) == [kind |-> "warning", id |-> warning_type]

add_message(s, log) == [s EXCEPT !.msgs = Append(@, log)]

ParserContext_new(ignore) == [messages |-> <<>>, ignore |-> ignore]

(***************************************************************************)
(* ParserResult.  Ok/NotFound/Error build the result of a rule body; Enter *)
(* and Exit bracket one rule call and record it: log holds every call of   *)
(* the parse in order of return, kids the direct sub-calls of the call that*)
(* is running.                                                             *)
(***************************************************************************)
NoNode == [kind |-> "None"]

Ok(s, node) == [sig |-> "Ok", s |-> s, node |-> node]

NotFound(s) == [sig |-> "NotFound", s |-> s, node |-> NoNode]

Error(s) == [sig |-> "Error", s |-> s, node |-> NoNode]

Enter(s) == [s EXCEPT !.kids = <<>>]

\* The record of a call keeps, for a rule that runs inside cursor_manager,
\* what its body returned: the signal and the cursor the body left.
Exit(rule, args, s0, r) ==
    LET call == [rule |-> rule, args |-> args, sig |-> r.sig, c0 |-> s0.cur,
                 c1 |-> r.s.cur, m0 |-> Len(s0.msgs), m1 |-> Len(r.s.msgs),
                 node |-> r.node,
                 body |-> IF "body" \in DOMAIN r THEN r.body
                          ELSE [sig |-> "None", cur |-> r.s.cur]]
    IN [sig |-> r.sig, node |-> r.node,
        s |-> [r.s EXCEPT !.log = Append(@, [call |-> call, kids |-> r.s.kids]),
                          !.kids = Append(s0.kids, call)]]

\* What cursor_manager returns: r, with the result of the body it ran.
cursor_manager_result(r, body) ==
    [sig |-> r.sig, s |-> r.s, node |-> r.node,
     body |-> [sig |-> body.sig, cur |-> body.s.cur]]

\* cursor_manager without the restore on NotFound.
cursor_manager_no_restore(init_cursor, r) == r

\* cursor_manager that restores the cursor on Error as on NotFound.
cursor_manager_restore_on_error(init_cursor, r) ==
    IF r.sig = "Ok" THEN cursor_manager_result(r, r)
    ELSE cursor_manager_result([r EXCEPT !.s.cur = init_cursor], r)

\* cursor_manager, given the cursor saved at entry and the result of the body.
cursor_manager(init_cursor, r) ==
    IF r.sig = "Ok" THEN cursor_manager_result(r, r)
    ELSE IF r.sig = "NotFound"
    THEN cursor_manager_result([r EXCEPT !.s.cur = init_cursor], r)
    ELSE cursor_manager_result(r, r)

(***************************************************************************)
(* The grammar rules.  `parse` is the call of a rule on the state s0: it   *)
(* runs the body of the rule, inside cursor_manager where the rule uses    *)
(* it, and records the call.  The rules call each other through it.        *)
(***************************************************************************)
RECURSIVE parse(_, _, _)

Identifier_parse(s0) == parse("Identifier::parse", s0, <<>>)

Identifier_parse_keyword(s0, keyword) ==
    parse("Identifier::parse_keyword", s0, <<keyword>>)

Comment_parse_inline(s0) == parse("Comment::parse_inline", s0, <<>>)

Comment_parse_multiline(s0) == parse("Comment::parse_multiline", s0, <<>>)

Whitespace_parse_inline(s0) == parse("Whitespace::parse_inline", s0, <<>>)

Whitespace_parse_multiline(s0) ==
    parse("Whitespace::parse_multiline", s0, <<>>)

Number_parse_number(s0, interval, radix) ==
    parse("Number::parse_number", s0, <<interval, radix>>)

Number_parse(s0) == parse("Number::parse", s0, <<>>)

IntegerNumber_parse_number(s0, digit_interval, radix, has_prefix) ==
    parse("IntegerNumber::parse_number", s0,
          <<digit_interval, radix, has_prefix>>)

IntegerNumber_parse(s0) == parse("IntegerNumber::parse", s0, <<>>)

Literal_parse(s0) == parse("Literal::parse", s0, <<>>)

Expression_parse(s0) == parse("Expression::parse", s0, <<>>)

VariableDeclaration_parse(s0) ==
    parse("VariableDeclaration::parse", s0, <<>>)

ReturnStatement_parse(s0) == parse("ReturnStatement::parse", s0, <<>>)

Statement_parse(s0) == parse("Statement::parse", s0, <<>>)

MosfetFile_parse(s0) == parse("MosfetFile::parse", s0, <<>>)

(***************************************************************************)
(* Identifier.                                                             *)
(***************************************************************************)
HEAD_CHARS == << <<65, 90>>, <<95, 95>>, <<97, 122>> >>

BODY_CHARS == << <<48, 57>>, <<65, 90>>, <<95, 95>>, <<97, 122>> >>

Identifier_new(s, init_cursor, cur) ==
    Ok([s EXCEPT !.cur = cur],
       [kind |-> "Identifier", span |-> substring_to_current(cur, init_cursor)])

\* After the head char: the chars of the body.
Identifier_head(s, init_cursor, head) ==
    IF ~head.ok THEN NotFound(s)
    ELSE Identifier_new(s, init_cursor, read_many_of(head.cur, BODY_CHARS).cur)

Identifier_body(s, init_cursor) ==
    Identifier_head(s, init_cursor, read_one_of(s.cur, HEAD_CHARS))

\* The keyword accepted as a prefix of the identifier.
Identifier_parse_keyword_body_prefix(s, init_cursor, keyword) ==
    LET id == Identifier_parse(s)
    IN IF id.sig # "Ok" THEN NotFound(id.s)
       ELSE IF starts_with(Span_content(id.node.span), keyword)
       THEN Ok(id.s, id.node)
       ELSE NotFound([id.s EXCEPT !.cur = init_cursor])

\* Returns a bool in the code: true is recorded as "Ok", false as "NotFound".
Identifier_parse_keyword_body(s, init_cursor, keyword) ==
    LET id == Identifier_parse(s)
    IN IF id.sig # "Ok" THEN NotFound(id.s)
       ELSE IF Span_content(id.node.span) = keyword THEN Ok(id.s, id.node)
       ELSE NotFound([id.s EXCEPT !.cur = init_cursor])

(***************************************************************************)
(* Comment.                                                                *)
(***************************************************************************)
SINGLE_LINE_COMMENT_TOKEN == <<35, 32>>

MULTILINE_COMMENT_TOKEN == <<35>>

MULTILINE_COMMENT_REPEAT_TOKEN == <<43>>

\* A comment between multiline markers taken as multiline whatever it holds.
Comment_is_multiline_type_only(comment) == comment.is_multiline_type

Comment_is_multiline(comment) ==
    comment.message.start_cursor.line # comment.message.end_cursor.line

Comment_inline_new(s, init_cursor, init_message_cursor, cur) ==
    Ok([s EXCEPT !.cur = cur],
       [kind |-> "Comment",
        span |-> substring_to_current(cur, init_cursor),
        is_multiline_type |-> FALSE,
        message |-> substring_to_current(cur, init_message_cursor),
        repeated_tokens |-> 0])

\* The inline comment that also consumes the line break that ends it.
Comment_inline_token_through_newline(s, init_cursor, token) ==
    IF ~token.ok THEN NotFound(s)
    ELSE Comment_inline_new(
             s, init_cursor, token.cur,
             read(read_until(token.cur, <<10>>, TRUE).cur, <<10>>).cur)

\* After the token: the message, up to the end of the line.
Comment_inline_token(s, init_cursor, token) ==
    IF ~token.ok THEN NotFound(s)
    ELSE Comment_inline_new(s, init_cursor, token.cur,
                            read_until(token.cur, <<10>>, TRUE).cur)

Comment_inline_body(s, init_cursor) ==
    Comment_inline_token(s, init_cursor, read(s.cur, SINGLE_LINE_COMMENT_TOKEN))

\* The loop that reads the opening tokens and builds the close token.
RECURSIVE Comment_close_token(_, _)
Comment_repeat_token(cur, close_token, token) ==
    IF ~token.ok THEN [cur |-> cur, close_token |-> close_token]
    ELSE Comment_close_token(token.cur,
                             close_token \o MULTILINE_COMMENT_REPEAT_TOKEN)

Comment_close_token(cur, close_token) ==
    Comment_repeat_token(cur, close_token,
                         read(cur, MULTILINE_COMMENT_REPEAT_TOKEN))

\* The unterminated comment reported as Error without a diagnostic.
Comment_without_end_token_silent(s) == Error(s)

Comment_without_end_token(s) ==
    Error(add_message(s, generate_error_log("MultilineCommentWithoutEndToken")))

\* The comment whose repeated_tokens counts the whole close token.
Comment_new_count_close_token(s, init_cursor, cur, message, close_token) ==
    Ok([s EXCEPT !.cur = cur],
       [kind |-> "Comment",
        span |-> substring_to_current(cur, init_cursor),
        is_multiline_type |-> TRUE,
        message |-> message,
        repeated_tokens |-> Len(close_token)])

Comment_new(s, init_cursor, cur, message, close_token) ==
    Ok([s EXCEPT !.cur = cur],
       [kind |-> "Comment",
        span |-> substring_to_current(cur, init_cursor),
        is_multiline_type |-> TRUE,
        message |-> message,
        repeated_tokens |-> Len(close_token) - 1])

\* The unterminated comment reported as NotFound.
Comment_multiline_until_not_found(s, init_cursor, init_message_cursor, close_token, until) ==
    IF ~until.ok THEN NotFound(s)
    ELSE Comment_new(s, init_cursor, read(until.cur, close_token).cur,
                     substring(init_message_cursor, until.cur), close_token)

\* After read_until: no close token is an Error, else the close token is read.
Comment_multiline_until(s, init_cursor, init_message_cursor, close_token, until) ==
    IF ~until.ok THEN Comment_without_end_token([s EXCEPT !.cur = until.cur])
    ELSE Comment_new(s, init_cursor, read(until.cur, close_token).cur,
                     substring(init_message_cursor, until.cur), close_token)

\* After the opening tokens: the comment closed at once, or its message.
Comment_multiline_closed(s, init_cursor, init_message_cursor, close_token, closed) ==
    IF closed.ok
    THEN Comment_new(s, init_cursor, closed.cur,
                     substring(init_message_cursor, init_message_cursor),
                     close_token)
    ELSE Comment_multiline_until(
             s, init_cursor, init_message_cursor, close_token,
             read_until(init_message_cursor, close_token, FALSE))

Comment_multiline_opening(s, init_cursor, opening) ==
    IF opening.close_token = <<>> THEN NotFound([s EXCEPT !.cur = opening.cur])
    ELSE Comment_multiline_closed(
             s, init_cursor, opening.cur,
             opening.close_token \o MULTILINE_COMMENT_TOKEN,
             read(opening.cur, MULTILINE_COMMENT_TOKEN))

Comment_multiline_open(s, init_cursor, open) ==
    IF ~open.ok THEN NotFound(s)
    ELSE Comment_multiline_opening(s, init_cursor,
                                   Comment_close_token(open.cur, <<>>))

Comment_multiline_body(s, init_cursor) ==
    Comment_multiline_open(s, init_cursor, read(s.cur, MULTILINE_COMMENT_TOKEN))

(***************************************************************************)
(* Whitespace.                                                             *)
(***************************************************************************)
WHITESPACE_CHARS ==
    << <<9, 9>>, <<32, 32>>, <<160, 160>>, <<5760, 5760>>, <<8192, 8202>>,
       <<8239, 8239>>, <<8287, 8287>>, <<12288, 12288>> >>

MULTILINE_WHITESPACE_CHARS == << <<10, 13>>, <<133, 133>>, <<8232, 8233>> >>

WhitespaceElement_Whitespace(span) == [type |-> "Whitespace", span |-> span]

WhitespaceElement_Comment(comment) == [type |-> "Comment", comment |-> comment]

Whitespace_new(span, is_multiline, elements) ==
    [kind |-> "Whitespace", span |-> span, is_multiline |-> is_multiline,
     elements |-> elements]

\* The end of the element loop without the elements.is_empty() check.
Whitespace_end_unchecked(s, init_cursor, is_multiline, elements) ==
    Ok(s, Whitespace_new(substring_to_current(s.cur, init_cursor),
                         is_multiline, elements))

\* What follows the element loop of both parse_inline and parse_multiline.
Whitespace_end(s, init_cursor, is_multiline, elements) ==
    IF elements = <<>> THEN NotFound(s)
    ELSE Ok(s, Whitespace_new(substring_to_current(s.cur, init_cursor),
                              is_multiline, elements))

RECURSIVE Whitespace_inline_loop(_, _, _, _)
Whitespace_inline_element(s, init_cursor, is_multiline, elements, ws) ==
    LET comment == Comment_parse_multiline(s)
    IN IF ws.ok
       THEN Whitespace_inline_loop(
                [s EXCEPT !.cur = ws.cur], init_cursor, is_multiline,
                Append(elements, WhitespaceElement_Whitespace(
                                     substring_to_current(ws.cur, s.cur))))
       ELSE IF comment.sig = "Ok"
       THEN Whitespace_inline_loop(
                comment.s, init_cursor,
                is_multiline \/ Comment_is_multiline(comment.node),
                Append(elements, WhitespaceElement_Comment(comment.node)))
       ELSE IF comment.sig = "Error" THEN Error(comment.s)
       ELSE Whitespace_end(comment.s, init_cursor, is_multiline, elements)

Whitespace_inline_loop(s, init_cursor, is_multiline, elements) ==
    Whitespace_inline_element(s, init_cursor, is_multiline, elements,
                              read_many_of(s.cur, WHITESPACE_CHARS))

\* The inner loop of parse_multiline: runs of inline and line-break chars.
RECURSIVE Whitespace_run(_, _, _)
Whitespace_run_chars(cur, any_whitespace, is_multiline, ws, ml) ==
    IF ws.ok THEN Whitespace_run(ws.cur, TRUE, is_multiline)
    ELSE IF ml.ok THEN Whitespace_run(ml.cur, TRUE, TRUE)
    ELSE [cur |-> cur, any_whitespace |-> any_whitespace,
          is_multiline |-> is_multiline]

Whitespace_run(cur, any_whitespace, is_multiline) ==
    Whitespace_run_chars(cur, any_whitespace, is_multiline,
                         read_many_of(cur, WHITESPACE_CHARS),
                         read_many_of(cur, MULTILINE_WHITESPACE_CHARS))

RECURSIVE Whitespace_multiline_loop(_, _, _, _)
\* After the whitespace of one turn of the loop: its comment, if any.
Whitespace_multiline_comment(s, init_cursor, is_multiline, elements) ==
    LET inline == Comment_parse_inline(s)
        multiline == Comment_parse_multiline(inline.s)
    IN IF inline.sig = "Ok"
       THEN Whitespace_multiline_loop(
                inline.s, init_cursor, is_multiline,
                Append(elements, WhitespaceElement_Comment(inline.node)))
       ELSE IF inline.sig = "Error" THEN Error(inline.s)
       ELSE IF multiline.sig = "Ok"
       THEN Whitespace_multiline_loop(
                multiline.s, init_cursor,
                is_multiline \/ Comment_is_multiline(multiline.node),
                Append(elements, WhitespaceElement_Comment(multiline.node)))
       ELSE IF multiline.sig = "Error" THEN Error(multiline.s)
       ELSE Whitespace_end(multiline.s, init_cursor, is_multiline, elements)

\* The turn of the loop that pushes an element also when nothing was read.
Whitespace_multiline_element_always(s, init_cursor, elements, run) ==
    Whitespace_multiline_comment(
        [s EXCEPT !.cur = run.cur], init_cursor, run.is_multiline,
        Append(elements, WhitespaceElement_Whitespace(
                             substring_to_current(run.cur, s.cur))))

Whitespace_multiline_element(s, init_cursor, elements, run) ==
    Whitespace_multiline_comment(
        [s EXCEPT !.cur = run.cur], init_cursor, run.is_multiline,
        IF run.any_whitespace
        THEN Append(elements, WhitespaceElement_Whitespace(
                                  substring_to_current(run.cur, s.cur)))
        ELSE elements)

Whitespace_multiline_loop(s, init_cursor, is_multiline, elements) ==
    Whitespace_multiline_element(s, init_cursor, elements,
                                 Whitespace_run(s.cur, FALSE, is_multiline))

Whitespace_default(cur) ==
    Whitespace_new(substring_to_current(cur, cur), FALSE, <<>>)

\* The or_default variants return a Whitespace, never a signal: [s, node].
Whitespace_parse_inline_or_default(s) ==
    LET r == Whitespace_parse_inline(s)
    IN [s |-> r.s,
        node |-> IF r.sig = "Ok" THEN r.node ELSE Whitespace_default(r.s.cur)]

Whitespace_parse_multiline_or_default(s) ==
    LET r == Whitespace_parse_multiline(s)
    IN [s |-> r.s,
        node |-> IF r.sig = "Ok" THEN r.node ELSE Whitespace_default(r.s.cur)]

(***************************************************************************)
(* Numbers.  Number is the literal that Literal::parse reads; IntegerNumber*)
(* is the integer literal with its diagnostics.                            *)
(***************************************************************************)
BINARY_PREFIX == <<48, 98>>

OCTAL_PREFIX == <<48, 111>>

DECIMAL_PREFIX == <<48, 100>>

HEXADECIMAL_PREFIX == <<48, 120>>

BINARY_DIGIT_CHARS == << <<48, 49>> >>

OCTAL_DIGIT_CHARS == << <<48, 55>> >>

DECIMAL_DIGIT_CHARS == << <<48, 57>> >>

HEXADECIMAL_DIGIT_CHARS == << <<48, 57>>, <<65, 70>>, <<97, 102>> >>

SEPARATOR_RANGE == << <<95, 95>> >>

Radix_prefix_str(radix) ==
    CASE radix = "Binary" -> BINARY_PREFIX
      [] radix = "Octal" -> OCTAL_PREFIX
      [] radix = "Decimal" -> DECIMAL_PREFIX
      [] radix = "Hexadecimal" -> HEXADECIMAL_PREFIX

\* The loop of separators and digits that follows the first digit run.
RECURSIVE Number_digits_loop(_, _)
\* The loop that keeps the separators it read when no digit follows them.
Number_digits_run_no_restore(init_loop_cursor, interval, digits) ==
    IF ~digits.ok THEN digits.cur
    ELSE Number_digits_loop(digits.cur, interval)

Number_digits_run(init_loop_cursor, interval, digits) ==
    IF ~digits.ok THEN init_loop_cursor
    ELSE Number_digits_loop(digits.cur, interval)

\* The loop that reads one separator only between two groups of digits.
Number_separator_run_single(cur, interval, separator) ==
    IF ~separator.ok THEN cur
    ELSE Number_digits_run(
             cur, interval,
             read_many_of(read_one_of(cur, SEPARATOR_RANGE).cur, interval))

Number_separator_run(cur, interval, separator) ==
    IF ~separator.ok THEN cur
    ELSE Number_digits_run(cur, interval, read_many_of(separator.cur, interval))

Number_digits_loop(cur, interval) ==
    Number_separator_run(cur, interval, read_many_of(cur, SEPARATOR_RANGE))

\* BigInt::parse_bytes of the digits with the separators removed.
RECURSIVE parse_bytes(_, _, _)
parse_bytes(bytes, radix, acc) ==
    IF bytes = <<>> THEN acc
    ELSE LET b == Head(bytes)
             digit == IF b <= 57 THEN b - 48 ELSE IF b <= 70 THEN b - 55
                      ELSE b - 87
         IN IF b = 95 THEN parse_bytes(Tail(bytes), radix, acc)
            ELSE parse_bytes(Tail(bytes), radix, acc * radix + digit)

Number_new(s, init_cursor, radix, end) ==
    LET span == substring_to_current(end, init_cursor)
    IN Ok([s EXCEPT !.cur = end],
          [kind |-> "Number", span |-> span,
           number |-> parse_bytes(Span_content(span), radix, 0)])

Number_first_digits(s, init_cursor, interval, radix, first) ==
    IF ~first.ok THEN NotFound(s)
    ELSE Number_new(s, init_cursor, radix,
                    Number_digits_loop(first.cur, interval))

Number_number_body(s, init_cursor, interval, radix) ==
    Number_first_digits(s, init_cursor, interval, radix,
                        read_many_of(s.cur, interval))

\* The number that keeps the span of its digits, without the prefix.
Number_with_span_of_digits(r, init_cursor) == r

\* The map that widens the span of the number to include the prefix.
Number_with_span(r, init_cursor) ==
    IF r.sig = "Ok"
    THEN [r EXCEPT !.node.span = substring_to_current(r.s.cur, init_cursor)]
    ELSE r

Number_prefix(s, init_cursor, binary, octal, hexadecimal, decimal) ==
    IF binary.ok
    THEN Number_with_span(
             Number_parse_number([s EXCEPT !.cur = binary.cur],
                                 BINARY_DIGIT_CHARS, 2), init_cursor)
    ELSE IF octal.ok
    THEN Number_with_span(
             Number_parse_number([s EXCEPT !.cur = octal.cur],
                                 OCTAL_DIGIT_CHARS, 8), init_cursor)
    ELSE IF hexadecimal.ok
    THEN Number_with_span(
             Number_parse_number([s EXCEPT !.cur = hexadecimal.cur],
                                 HEXADECIMAL_DIGIT_CHARS, 16), init_cursor)
    ELSE Number_with_span(
             Number_parse_number([s EXCEPT !.cur = decimal.cur],
                                 DECIMAL_DIGIT_CHARS, 10), init_cursor)

Number_body(s, init_cursor) ==
    Number_prefix(s, init_cursor, read(s.cur, BINARY_PREFIX),
                  read(s.cur, OCTAL_PREFIX), read(s.cur, HEXADECIMAL_PREFIX),
                  read(s.cur, DECIMAL_PREFIX))

RECURSIVE trim_start_matches_0(_)
trim_start_matches_0(bytes) ==
    IF bytes # <<>> /\ Head(bytes) = 48 THEN trim_start_matches_0(Tail(bytes))
    ELSE bytes

\* The check that also warns about the number 0.
IntegerNumber_check_leading_zeroes_of_zero(s, digits) ==
    LET text == Span_content(digits)
        new_content == trim_start_matches_0(text)
    IN IF s.ignore.number_leading_zeroes THEN s
       ELSE IF Len(new_content) = Len(text) THEN s
       ELSE add_message(s, generate_warning_log("NumberWithLeadingZeroes"))

IntegerNumber_check_leading_zeroes(s, digits) ==
    LET text == Span_content(digits)
        new_content == trim_start_matches_0(text)
        number_of_zeroes == Len(text) - Len(new_content)
    IN IF s.ignore.number_leading_zeroes THEN s
       ELSE IF Len(new_content) = Len(text) THEN s
       ELSE IF Len(new_content) = 0 /\ number_of_zeroes = 1 THEN s
       ELSE add_message(s, generate_warning_log("NumberWithLeadingZeroes"))

\* The number whose leading zeroes are checked whatever the configuration.
IntegerNumber_new_ignore_unchecked(s, init_cursor, radix, has_prefix, end) ==
    LET digits == substring_to_current(end, init_cursor)
    IN Ok(IntegerNumber_check_leading_zeroes(
              [s EXCEPT !.cur = end, !.ignore.number_leading_zeroes = FALSE],
              digits),
          [kind |-> "IntegerNumber", span |-> digits,
           has_prefix |-> has_prefix, radix |-> radix, digits |-> digits])

IntegerNumber_new(s, init_cursor, radix, has_prefix, end) ==
    LET digits == substring_to_current(end, init_cursor)
    IN Ok(IntegerNumber_check_leading_zeroes([s EXCEPT !.cur = end], digits),
          [kind |-> "IntegerNumber", span |-> digits,
           has_prefix |-> has_prefix, radix |-> radix, digits |-> digits])

\* No digit: NotFound, with or without a prefix.
IntegerNumber_no_digits_not_found(s, has_prefix, separator) == NotFound(s)

\* No digit: an Error after a prefix, NotFound without one.
IntegerNumber_no_digits(s, has_prefix, separator) ==
    IF has_prefix
    THEN IF separator.ok
         THEN Error(add_message(
                  [s EXCEPT !.cur = separator.cur],
                  generate_error_log("NumberWithSeparatorAfterPrefix")))
         ELSE Error(add_message(
                  s, generate_error_log("NumberWithoutDigitsAfterPrefix")))
    ELSE NotFound(s)

IntegerNumber_first_digits(s, init_cursor, digit_interval, radix, has_prefix, first) ==
    IF ~first.ok
    THEN IntegerNumber_no_digits(s, has_prefix,
                                 read_one_of(s.cur, SEPARATOR_RANGE))
    ELSE IntegerNumber_new(s, init_cursor, radix, has_prefix,
                           Number_digits_loop(first.cur, digit_interval))

IntegerNumber_number_body(s, init_cursor, digit_interval, radix, has_prefix) ==
    IntegerNumber_first_digits(s, init_cursor, digit_interval, radix,
                               has_prefix, read_many_of(s.cur, digit_interval))

\* The map that turns a number with a warning into an Error.
IntegerNumber_with_span_stop_on_warning(r, init_cursor, has_prefix) ==
    IF r.sig = "Ok"
    THEN IF r.s.msgs # <<>> /\ r.s.msgs[Len(r.s.msgs)].kind = "warning"
         THEN Error(r.s)
         ELSE [r EXCEPT !.node.span = substring_to_current(r.s.cur, init_cursor),
                        !.node.has_prefix = has_prefix]
    ELSE r

\* The map that sets has_prefix and keeps the span of the digits.
IntegerNumber_with_span_of_digits(r, init_cursor, has_prefix) ==
    IF r.sig = "Ok" THEN [r EXCEPT !.node.has_prefix = has_prefix] ELSE r

\* The map that sets the span and has_prefix of the parsed number.
IntegerNumber_with_span(r, init_cursor, has_prefix) ==
    IF r.sig = "Ok"
    THEN [r EXCEPT !.node.span = substring_to_current(r.s.cur, init_cursor),
                   !.node.has_prefix = has_prefix]
    ELSE r

IntegerNumber_prefix(s, init_cursor, binary, octal, hexadecimal, decimal) ==
    IF binary.ok
    THEN IntegerNumber_with_span(
             IntegerNumber_parse_number([s EXCEPT !.cur = binary.cur],
                 BINARY_DIGIT_CHARS, "Binary", TRUE), init_cursor, TRUE)
    ELSE IF octal.ok
    THEN IntegerNumber_with_span(
             IntegerNumber_parse_number([s EXCEPT !.cur = octal.cur],
                 OCTAL_DIGIT_CHARS, "Octal", TRUE), init_cursor, TRUE)
    ELSE IF hexadecimal.ok
    THEN IntegerNumber_with_span(
             IntegerNumber_parse_number([s EXCEPT !.cur = hexadecimal.cur],
                 HEXADECIMAL_DIGIT_CHARS, "Hexadecimal", TRUE),
             init_cursor, TRUE)
    ELSE IntegerNumber_with_span(
             IntegerNumber_parse_number([s EXCEPT !.cur = decimal.cur],
                 DECIMAL_DIGIT_CHARS, "Decimal", decimal.ok),
             init_cursor, decimal.ok)

IntegerNumber_body(s, init_cursor) ==
    IntegerNumber_prefix(s, init_cursor, read(s.cur, BINARY_PREFIX),
                         read(s.cur, OCTAL_PREFIX),
                         read(s.cur, HEXADECIMAL_PREFIX),
                         read(s.cur, DECIMAL_PREFIX))

(***************************************************************************)
(* Literal and Expression.                                                 *)
(***************************************************************************)
Literal_body(s) ==
    LET number == Number_parse(s)
    IN IF number.sig = "Ok"
       THEN Ok(number.s, [kind |-> "Literal", variant |-> "Number",
                          span |-> number.node.span, node |-> number.node])
       ELSE IF number.sig = "Error" THEN Error(number.s)
       ELSE NotFound(number.s)

Expression_body(s) ==
    LET literal == Literal_parse(s)
        identifier == Identifier_parse(literal.s)
    IN IF literal.sig = "Ok"
       THEN Ok(literal.s, [kind |-> "Expression", variant |-> "Literal",
                           span |-> literal.node.span, node |-> literal.node])
       ELSE IF literal.sig = "Error" THEN Error(literal.s)
       ELSE IF identifier.sig = "Ok"
       THEN Ok(identifier.s,
               [kind |-> "Expression", variant |-> "VariableAccess",
                span |-> identifier.node.span, node |-> identifier.node])
       ELSE IF identifier.sig = "Error" THEN Error(identifier.s)
       ELSE NotFound(identifier.s)

(***************************************************************************)
(* Statements.                                                             *)
(***************************************************************************)
VariableDeclaration_KEYWORD == <<108, 101, 116>>

ASSIGN_OPERATOR == <<61>>

ReturnStatement_KEYWORD == <<114, 101, 116, 117, 114, 110>>

VariableDeclaration_body(s, init_cursor) ==
    LET keyword == Identifier_parse_keyword(s, VariableDeclaration_KEYWORD)
        pre_name_whitespace == Whitespace_parse_multiline_or_default(keyword.s)
        name == Identifier_parse(pre_name_whitespace.s)
        pre_assign_operator_whitespace ==
            Whitespace_parse_multiline_or_default(name.s)
        assign == read(pre_assign_operator_whitespace.s.cur, ASSIGN_OPERATOR)
        pre_expression_whitespace ==
            Whitespace_parse_multiline_or_default(
                [pre_assign_operator_whitespace.s EXCEPT !.cur = assign.cur])
        expression == Expression_parse(pre_expression_whitespace.s)
    IN IF keyword.sig # "Ok" THEN NotFound(keyword.s)
       ELSE IF name.sig # "Ok"
       THEN Error(add_message(
                name.s, generate_error_log("MissingNameInVariableDeclaration")))
       ELSE IF ~assign.ok
       THEN Error(add_message(
                pre_assign_operator_whitespace.s,
                generate_error_log("MissingAssignOperatorInVariableDeclaration")))
       ELSE IF expression.sig # "Ok"
       THEN Error(add_message(
                expression.s,
                generate_error_log("MissingExpressionInVariableDeclaration")))
       ELSE Ok(expression.s,
               [kind |-> "VariableDeclaration",
                span |-> substring_to_current(expression.s.cur, init_cursor),
                name |-> name.node,
                expression |-> expression.node,
                pre_name_whitespace |-> pre_name_whitespace.node,
                pre_expression_whitespace |-> pre_expression_whitespace.node,
                pre_assign_operator_whitespace |->
                    pre_assign_operator_whitespace.node])

ReturnStatement_body(s, init_cursor) ==
    LET keyword == Identifier_parse_keyword(s, ReturnStatement_KEYWORD)
        pre_expression_whitespace ==
            Whitespace_parse_multiline_or_default(keyword.s)
        expression == Expression_parse(pre_expression_whitespace.s)
    IN IF keyword.sig # "Ok" THEN NotFound(keyword.s)
       ELSE IF expression.sig # "Ok"
       THEN Error(add_message(
                expression.s,
                generate_error_log("MissingExpressionInReturnStatement")))
       ELSE Ok(expression.s,
               [kind |-> "ReturnStatement",
                span |-> substring_to_current(expression.s.cur, init_cursor),
                expression |-> expression.node,
                pre_expression_whitespace |-> pre_expression_whitespace.node])

\* Statement::parse that tries the return statement after a declaration Error.
Statement_body_downgrade(s) ==
    LET declaration == VariableDeclaration_parse(s)
        return == ReturnStatement_parse(declaration.s)
    IN IF declaration.sig = "Ok"
       THEN Ok(declaration.s,
               [kind |-> "Statement", variant |-> "VariableDeclaration",
                span |-> declaration.node.span, node |-> declaration.node])
       ELSE IF return.sig = "Ok"
       THEN Ok(return.s,
               [kind |-> "Statement", variant |-> "ReturnStatement",
                span |-> return.node.span, node |-> return.node])
       ELSE IF return.sig = "Error" THEN Error(return.s)
       ELSE NotFound(return.s)

Statement_body(s) ==
    LET declaration == VariableDeclaration_parse(s)
        return == ReturnStatement_parse(declaration.s)
    IN IF declaration.sig = "Ok"
       THEN Ok(declaration.s,
               [kind |-> "Statement", variant |-> "VariableDeclaration",
                span |-> declaration.node.span, node |-> declaration.node])
       ELSE IF declaration.sig = "Error" THEN Error(declaration.s)
       ELSE IF return.sig = "Ok"
       THEN Ok(return.s,
               [kind |-> "Statement", variant |-> "ReturnStatement",
                span |-> return.node.span, node |-> return.node])
       ELSE IF return.sig = "Error" THEN Error(return.s)
       ELSE NotFound(return.s)

(***************************************************************************)
(* MosfetFile.                                                             *)
(***************************************************************************)
MosfetFile_new(span, statements) ==
    [kind |-> "MosfetFile", span |-> span, statements |-> statements]

\* The first "check end" reporting ExpectedEOFInFile, as for later statements.
MosfetFile_no_statement_expected_eof(s, init_cursor, statements) ==
    IF remaining_length(s.cur) = 0
    THEN Ok(s, MosfetFile_new(substring_to_current(s.cur, init_cursor),
                              statements))
    ELSE Error(add_message(s, generate_error_log("ExpectedEOFInFile")))

\* "Check end" when no first statement was parsed.
MosfetFile_no_statement(s, init_cursor, statements) ==
    IF remaining_length(s.cur) = 0
    THEN Ok(s, MosfetFile_new(substring_to_current(s.cur, init_cursor),
                              statements))
    ELSE Error(add_message(s, generate_error_log("NotAMosfetFile")))

\* The final "check end" without the check of the remaining length.
MosfetFile_check_end_unchecked(s, init_cursor, statements) ==
    Ok(s, MosfetFile_new(substring_to_current(s.cur, init_cursor), statements))

\* "Check end" after the statement loop.
MosfetFile_check_end(s, init_cursor, statements) ==
    IF remaining_length(s.cur) = 0
    THEN Ok(s, MosfetFile_new(substring_to_current(s.cur, init_cursor),
                              statements))
    ELSE Error(add_message(s, generate_error_log("ExpectedEOFInFile")))

\* The same-line check with unwrap_or(true).
MosfetFile_is_multiline_or_true(whitespace) ==
    IF whitespace.sig = "Ok" THEN whitespace.node.is_multiline ELSE TRUE

\* whitespace.as_ref().map(|ws| ws.is_multiline()).unwrap_or(false)
MosfetFile_is_multiline(whitespace) ==
    IF whitespace.sig = "Ok" THEN whitespace.node.is_multiline ELSE FALSE

\* The loop of the next statements, and the check that follows it.
RECURSIVE MosfetFile_loop(_, _, _)
MosfetFile_loop(s, init_cursor, statements) ==
    LET whitespace == Whitespace_parse_multiline(s)
        statement == Statement_parse(whitespace.s)
    IN IF statement.sig = "Ok"
       THEN IF ~MosfetFile_is_multiline(whitespace)
            THEN Error(add_message(
                     statement.s,
                     generate_error_log("TwoStatementsInSameLineInFile")))
            ELSE MosfetFile_loop(statement.s, init_cursor,
                                 Append(statements, statement.node))
       ELSE IF statement.sig = "NotFound"
       THEN MosfetFile_check_end(statement.s, init_cursor, statements)
       ELSE Error(statement.s)

\* MosfetFile::parse with the span taken from after the leading whitespace.
MosfetFile_body_after_whitespace(s, init_cursor) ==
    LET whitespace == Whitespace_parse_multiline(s)
        statement == Statement_parse(whitespace.s)
    IN IF statement.sig = "Ok"
       THEN MosfetFile_loop(statement.s, whitespace.s.cur, <<statement.node>>)
       ELSE MosfetFile_no_statement(statement.s, whitespace.s.cur, <<>>)

MosfetFile_body(s, init_cursor) ==
    LET whitespace == Whitespace_parse_multiline(s)
        statement == Statement_parse(whitespace.s)
    IN IF statement.sig = "Ok"
       THEN MosfetFile_loop(statement.s, init_cursor, <<statement.node>>)
       ELSE MosfetFile_no_statement(statement.s, init_cursor, <<>>)

\* The call of a grammar rule.
parse(rule, s0, args) ==
    Exit(rule, args, s0,
         CASE rule = "Identifier::parse" ->
                 cursor_manager(s0.cur, Identifier_body(Enter(s0), s0.cur))
           [] rule = "Identifier::parse_keyword" ->
                 Identifier_parse_keyword_body(Enter(s0), s0.cur, args[1])
           [] rule = "Comment::parse_inline" ->
                 cursor_manager(s0.cur, Comment_inline_body(Enter(s0), s0.cur))
           [] rule = "Comment::parse_multiline" ->
                 cursor_manager(s0.cur, Comment_multiline_body(Enter(s0), s0.cur))
           [] rule = "Whitespace::parse_inline" ->
                 cursor_manager(s0.cur,
                 Whitespace_inline_loop(Enter(s0), s0.cur, FALSE, <<>>))
           [] rule = "Whitespace::parse_multiline" ->
                 cursor_manager(s0.cur,
                 Whitespace_multiline_loop(Enter(s0), s0.cur, FALSE, <<>>))
           [] rule = "Number::parse_number" ->
                 cursor_manager(s0.cur,
                 Number_number_body(Enter(s0), s0.cur, args[1], args[2]))
           [] rule = "Number::parse" ->
                 cursor_manager(s0.cur, Number_body(Enter(s0), s0.cur))
           [] rule = "IntegerNumber::parse_number" ->
                 cursor_manager(s0.cur,
                 IntegerNumber_number_body(Enter(s0), s0.cur, args[1],
                                           args[2], args[3]))
           [] rule = "IntegerNumber::parse" ->
                 cursor_manager(s0.cur, IntegerNumber_body(Enter(s0), s0.cur))
           [] rule = "Literal::parse" ->
                 Literal_body(Enter(s0))
           [] rule = "Expression::parse" ->
                 Expression_body(Enter(s0))
           [] rule = "VariableDeclaration::parse" ->
                 cursor_manager(s0.cur, VariableDeclaration_body(Enter(s0), s0.cur))
           [] rule = "ReturnStatement::parse" ->
                 cursor_manager(s0.cur, ReturnStatement_body(Enter(s0), s0.cur))
           [] rule = "Statement::parse" ->
                 Statement_body(Enter(s0))
           [] rule = "MosfetFile::parse" ->
                 cursor_manager(s0.cur, MosfetFile_body(Enter(s0), s0.cur)))

(***************************************************************************)
(* The parse sessions.  A session builds a Reader over a text and a        *)
(* ParserContext, may read some chars to place the reader, and calls one   *)
(* grammar rule; `last` keeps the outcome of that call and its call record.*)
(***************************************************************************)
\* The fragments of the texts of statements:
\* "let", "let x=", "return", " ", "\n", "#", "+"
Frags ==
    { <<108, 101, 116>>, <<108, 101, 116, 32, 120, 61>>,
      <<114, 101, 116, 117, 114, 110>>, <<32>>, <<10>>, <<35>>, <<43>> }

\* The fragments of the texts of numbers: "0", "1", "_", "0b", "0x"
NumberFrags == { <<48>>, <<49>>, <<95>>, <<48, 98>>, <<48, 120>> }

RECURSIVE Texts(_, _)
Texts(frags, n) ==
    IF n = 0 THEN {<<>>}
    ELSE LET shorter == Texts(frags, n - 1)
         IN shorter \cup {text \o f : text \in shorter, f \in frags}

NoCall ==
    [rule |-> "None", args |-> <<>>, sig |-> "None", c0 |-> Reader_new,
     c1 |-> Reader_new, m0 |-> 0, m1 |-> 0, node |-> NoNode, log |-> <<>>]

Init ==
    /\ content \in Texts(Frags, MaxFrags) \cup Texts(NumberFrags, MaxFrags)
    /\ context = ParserContext_new([number_leading_zeroes |-> FALSE])
    /\ reader = Reader_new
    /\ pc = "ready"
    /\ last = NoCall
    /\ saved = {}

entry ==
    [cur |-> reader, msgs |-> context.messages, ignore |-> context.ignore,
     log |-> <<>>, kids |-> <<>>]

\* The session calls a rule: r is the result of the rule from `entry`.
Call(r) ==
    LET top == r.s.log[Len(r.s.log)].call
    IN /\ pc = "ready"
       /\ reader' = r.s.cur
       /\ context' = [context EXCEPT !.messages = r.s.msgs]
       /\ last' = [rule |-> top.rule, args |-> top.args, sig |-> top.sig,
                   c0 |-> top.c0, c1 |-> top.c1, m0 |-> top.m0, m1 |-> top.m1,
                   node |-> top.node, log |-> r.s.log]
       /\ pc' = "done"
       /\ UNCHANGED <<content, saved>>

\* Reader::read of the next char of the text.
Read ==
    /\ pc = "ready"
    /\ remaining_length(reader) > 0
    /\ reader' = read(reader, slice(content, reader.offset,
                          reader.offset + len_utf8(content[reader.offset + 1]))).cur
    /\ UNCHANGED <<content, context, pc, last, saved>>

ParseIdentifier == Call(Identifier_parse(entry))

ParseKeyword ==
    \E keyword \in {VariableDeclaration_KEYWORD, ReturnStatement_KEYWORD} :
        Call(Identifier_parse_keyword(entry, keyword))

ParseCommentInline == Call(Comment_parse_inline(entry))

ParseCommentMultiline == Call(Comment_parse_multiline(entry))

ParseWhitespaceInline == Call(Whitespace_parse_inline(entry))

ParseWhitespaceMultiline == Call(Whitespace_parse_multiline(entry))

ParseNumber == Call(Number_parse(entry))

ParseIntegerNumber == Call(IntegerNumber_parse(entry))

ParseLiteral == Call(Literal_parse(entry))

ParseExpression == Call(Expression_parse(entry))

ParseVariableDeclaration == Call(VariableDeclaration_parse(entry))

ParseReturnStatement == Call(ReturnStatement_parse(entry))

ParseStatement == Call(Statement_parse(entry))

ParseFile == Call(MosfetFile_parse(entry))

Next ==
    \/ Read
    \/ ParseIdentifier
    \/ ParseKeyword
    \/ ParseCommentInline
    \/ ParseCommentMultiline
    \/ ParseWhitespaceInline
    \/ ParseWhitespaceMultiline
    \/ ParseNumber
    \/ ParseIntegerNumber
    \/ ParseLiteral
    \/ ParseExpression
    \/ ParseVariableDeclaration
    \/ ParseReturnStatement
    \/ ParseStatement
    \/ ParseFile

Spec == Init /\ [][Next]_vars

(***************************************************************************)
(* The file sessions: MosfetFile::parse on a fresh reader, over texts made *)
(* of whole statements, separators and comment markers.                    *)
(***************************************************************************)
\* "let x=0", "return x", "let", " ", "\n", "#+", "+#", "#", "-"
FileFrags ==
    { <<108, 101, 116, 32, 120, 61, 48>>,
      <<114, 101, 116, 117, 114, 110, 32, 120>>, <<108, 101, 116>>, <<32>>,
      <<10>>, <<35, 43>>, <<43, 35>>, <<35>>, <<45>> }

InitFile ==
    /\ content \in Texts(FileFrags, MaxFileFrags)
    /\ reader = Reader_new
    /\ context = ParserContext_new([number_leading_zeroes |-> FALSE])
    /\ pc = "ready"
    /\ last = NoCall
    /\ saved = {}

NextFile == ParseFile

SpecFile == InitFile /\ [][NextFile]_vars

(***************************************************************************)
(* The comment sessions: Comment::parse_inline and Comment::parse_multiline*)
(* at any position of a text made of comment markers and message text.     *)
(***************************************************************************)
\* "#", "#+", "#++", "+#", "++#", " ", "\n", "x"
CommentFrags ==
    { <<35>>, <<35, 43>>, <<35, 43, 43>>, <<43, 35>>, <<43, 43, 35>>, <<32>>,
      <<10>>, <<120>> }

InitComment ==
    /\ content \in Texts(CommentFrags, MaxCommentFrags)
    /\ reader = Reader_new
    /\ context = ParserContext_new([number_leading_zeroes |-> FALSE])
    /\ pc = "ready"
    /\ last = NoCall
    /\ saved = {}

NextComment ==
    \/ Read
    \/ ParseCommentInline
    \/ ParseCommentMultiline

SpecComment == InitComment /\ [][NextComment]_vars

(***************************************************************************)
(* The number sessions: IntegerNumber::parse and Number::parse at any      *)
(* position of a text made of prefixes, digits and separators, with the    *)
(* leading-zeroes warning enabled or ignored.                              *)
(***************************************************************************)
\* "0", "1", "_", "__", "f", "0b", "0o", "0d", "0x"
IntegerFrags ==
    { <<48>>, <<49>>, <<95>>, <<95, 95>>, <<102>>, <<48, 98>>, <<48, 111>>,
      <<48, 100>>, <<48, 120>> }

InitNumber ==
    /\ content \in Texts(IntegerFrags, MaxNumberFrags)
    /\ reader = Reader_new
    /\ \E ignore \in BOOLEAN :
           context = ParserContext_new([number_leading_zeroes |-> ignore])
    /\ pc = "ready"
    /\ last = NoCall
    /\ saved = {}

NextNumber ==
    \/ Read
    \/ ParseIntegerNumber
    \/ ParseNumber

SpecNumber == InitNumber /\ [][NextNumber]_vars

(***************************************************************************)
(* The reader sessions: the methods of a Reader over a text of one-byte    *)
(* chars, line breaks and three-byte chars, called in any order, with      *)
(* cursors saved and restored; `last` keeps the last call: its method, its *)
(* argument, whether it matched, the cursor before it and its result.      *)
(* Another Reader, over the text of test_consume, has cursors of its own.  *)
(***************************************************************************)
\* "a", "\n", U+3000
ReaderFrags == { <<97>>, <<10>>, <<227, 128, 128>> }

\* The cursors that test_consume asserts, of the Reader over its text.
OtherCursors ==
    { [reader_id |-> "other", cursor |-> Cursor_new(2, 2, 1, 3)],
      [reader_id |-> "other", cursor |-> Cursor_new(5, 5, 2, 1)],
      [reader_id |-> "other", cursor |-> Cursor_new(7, 7, 2, 3)] }

InitReader ==
    /\ content \in Texts(ReaderFrags, MaxReaderFrags)
    /\ reader = Reader_new
    /\ context = ParserContext_new([number_leading_zeroes |-> FALSE])
    /\ pc = "ready"
    /\ last = [op |-> "new", arg |-> <<>>, ok |-> TRUE, c0 |-> Reader_new,
               result |-> 0]
    /\ saved = {}

\* The session calls a consuming method: r is its [ok, cur], result the
\* length in bytes of the text it matched.
ReaderCall(op, arg, r, result) ==
    /\ pc = "ready"
    /\ reader' = r.cur
    /\ last' = [op |-> op, arg |-> arg, ok |-> r.ok, c0 |-> reader,
                result |-> result]
    /\ UNCHANGED <<content, context, pc, saved>>

ReaderRead ==
    \E text \in {<<>>, <<97>>, <<10>>, <<97, 10>>, <<227, 128, 128>>} :
        ReaderCall("read", text, read(reader, text), Len(text))

ReaderReadOneOf ==
    \E interval \in {HEAD_CHARS, WHITESPACE_CHARS, MULTILINE_WHITESPACE_CHARS} :
        ReaderCall("read_one_of", interval, read_one_of(reader, interval),
                   continues_with_one_of(reader, interval))

ReaderReadOneOrMoreOf ==
    \E interval \in {HEAD_CHARS, WHITESPACE_CHARS, MULTILINE_WHITESPACE_CHARS} :
        ReaderCall("read_one_or_more_of", interval,
                   read_one_or_more_of(reader, interval),
                   continues_with_one_or_more_of(reader, interval))

ReaderReadUntil ==
    \E text \in {<<97>>, <<10>>}, until_eof \in BOOLEAN :
        ReaderCall("read_until", <<text, until_eof>>,
                   read_until(reader, text, until_eof),
                   IF find(reader, text) >= 0 THEN find(reader, text)
                   ELSE IF until_eof THEN remaining_length(reader) ELSE 0)

ReaderSave ==
    /\ pc = "ready"
    /\ Cardinality(saved) < MaxSaved
    /\ saved' = saved \cup {[reader_id |-> "reader", cursor |-> reader]}
    /\ last' = [op |-> "save", arg |-> <<>>, ok |-> TRUE, c0 |-> reader,
                result |-> 0]
    /\ UNCHANGED <<content, reader, context, pc>>

\* Reader::restore is not checked: it takes the cursor of any Reader.  The
\* session ends when the cursor is not of this reader.
ReaderRestore ==
    \E cursor \in saved \cup OtherCursors :
        /\ pc = "ready"
        /\ reader' = cursor.cursor
        /\ last' = [op |-> "restore", arg |-> cursor, ok |-> TRUE,
                    c0 |-> reader, result |-> 0]
        /\ pc' = IF belongs_to(cursor, "reader") THEN "ready" ELSE "foreign"
        /\ UNCHANGED <<content, context, saved>>

\* Span::lines of the span between two cursors of the session.
SpanLines ==
    \E from \in saved \cup {[reader_id |-> "reader", cursor |-> reader]},
       to \in saved \cup {[reader_id |-> "reader", cursor |-> reader]} :
        /\ pc = "ready"
        /\ last' = [op |-> "lines", arg |-> substring(from.cursor, to.cursor),
                    ok |-> TRUE, c0 |-> reader,
                    result |-> Span_lines(substring(from.cursor, to.cursor))]
        /\ UNCHANGED <<content, reader, context, pc, saved>>

NextReader ==
    \/ ReaderRead
    \/ ReaderReadOneOf
    \/ ReaderReadOneOrMoreOf
    \/ ReaderReadUntil
    \/ ReaderSave
    \/ ReaderRestore
    \/ SpanLines

SpecReader == InitReader /\ [][NextReader]_vars

(***************************************************************************)
(* The node sessions: a rule is called on a fresh reader over a text made  *)
(* of statements, numbers, line breaks and comments; then the text of the  *)
(* span of one of the nodes it built is given to a reader of its own and   *)
(* the rule that built the node is called again, on that text alone.       *)
(***************************************************************************)
\* "let x=0b1_0", "return x", "0b1_0", "\r", "\n", " ", "#+", "+#", "# c"
NodeFrags ==
    { <<108, 101, 116, 32, 120, 61, 48, 98, 49, 95, 48>>,
      <<114, 101, 116, 117, 114, 110, 32, 120>>, <<48, 98, 49, 95, 48>>,
      <<13>>, <<10>>, <<32>>, <<35, 43>>, <<43, 35>>, <<35, 32, 99>> }

InitNodes ==
    /\ content \in Texts(NodeFrags, MaxNodeFrags)
    /\ reader = Reader_new
    /\ context = ParserContext_new([number_leading_zeroes |-> FALSE])
    /\ pc = "ready"
    /\ last = NoCall
    /\ saved = {}

\* A reader over the text of the span of a node that the session built;
\* orig is the record of the call that built the node.
Isolate ==
    \E k \in 1..Len(last.log) :
        /\ pc = "done"
        /\ last.log[k].call.sig = "Ok"
        /\ content' = Span_content(last.log[k].call.node.span)
        /\ reader' = Reader_new
        /\ context' = ParserContext_new(context.ignore)
        /\ pc' = "isolated"
        /\ last' = [rule |-> last.log[k].call.rule,
                    args |-> last.log[k].call.args, sig |-> "None",
                    c0 |-> Reader_new, c1 |-> Reader_new, m0 |-> 0, m1 |-> 0,
                    node |-> NoNode, log |-> <<>>, orig |-> last.log[k].call]
        /\ UNCHANGED saved

\* The rule of the node called again: r is its result on the isolated text.
Reparsed(r) ==
    LET top == r.s.log[Len(r.s.log)].call
    IN /\ pc = "isolated"
       /\ reader' = r.s.cur
       /\ context' = [context EXCEPT !.messages = r.s.msgs]
       /\ last' = [rule |-> top.rule, args |-> top.args, sig |-> top.sig,
                   c0 |-> top.c0, c1 |-> top.c1, m0 |-> top.m0, m1 |-> top.m1,
                   node |-> top.node, log |-> r.s.log, orig |-> last.orig]
       /\ pc' = "reparsed"
       /\ UNCHANGED <<content, saved>>

Reparse == Reparsed(parse(last.rule, entry, last.args))

NextNodes ==
    \/ ParseFile
    \/ ParseIntegerNumber
    \/ ParseWhitespaceInline
    \/ Isolate
    \/ Reparse

SpecNodes == InitNodes /\ [][NextNodes]_vars

(***************************************************************************)
(* Properties.                                                             *)
(***************************************************************************)
\* The calls recorded by the session: each is [call, kids].
Calls == {last.log[i] : i \in 1..Len(last.log)}

IsError(message) == message.kind = "error"

RECURSIVE CountErrors(_)
CountErrors(messages) ==
    IF messages = <<>> THEN 0
    ELSE (IF IsError(Head(messages)) THEN 1 ELSE 0) + CountErrors(Tail(messages))

LastMessageId ==
    IF context.messages = <<>> THEN "None"
    ELSE context.messages[Len(context.messages)].id

\* C1 - Rollback invariant: every call of a grammar rule that returns NotFound
\* (parse_keyword: false) leaves the reader's cursor equal to the cursor at
\* its entry.
C1_Rollback ==
    \A e \in Calls : e.call.sig = "NotFound" => e.call.c1 = e.call.c0

\* A keyword that does not match: the identifier was read, then rolled back.
C1_Witness ==
    /\ pc = "done"
    /\ last.rule = "Identifier::parse_keyword"
    /\ last.sig = "NotFound"
    /\ last.c0.offset > 0
    /\ reader = last.c0
    /\ \E e \in Calls : /\ e.call.rule = "Identifier::parse"
                        /\ e.call.sig = "Ok"
                        /\ e.call.c1.offset > last.c0.offset

\* The top call of a file session and its direct sub-calls, which alternate
\* Whitespace::parse_multiline and Statement::parse.
FileDone == pc = "done" /\ last.rule = "MosfetFile::parse"

FileKids == last.log[Len(last.log)].kids

\* C2 - Error always reaches the top: if any rule called during
\* MosfetFile::parse returns Error then MosfetFile::parse returns Error, and
\* it never returns Ok with an error diagnostic in the context.
C2_ErrorReachesTop ==
    FileDone =>
        /\ \A e \in Calls : e.call.sig = "Error" => last.sig = "Error"
        /\ last.sig = "Ok" => CountErrors(context.messages) = 0

\* The direct sub-calls of an alternation: first, then second only after
\* first returned NotFound; the result is that of the last alternative tried.
Alternation(e, first, second) ==
    LET k == e.kids
    IN /\ Len(k) \in {1, 2}
       /\ k[1].rule = first
       /\ k[1].c0 = e.call.c0
       /\ IF k[1].sig \in {"Ok", "Error"}
          THEN /\ Len(k) = 1
               /\ e.call.sig = k[1].sig
               /\ k[1].sig = "Ok" => e.call.node.node = k[1].node
          ELSE /\ Len(k) = 2
               /\ k[2].rule = second
               /\ e.call.sig = k[2].sig
               /\ k[2].sig = "Ok" => e.call.node.node = k[2].node

\* C3 - Alternation policy: Statement::parse tries VariableDeclaration then
\* ReturnStatement, Expression::parse tries Literal then Identifier; the first
\* Ok or Error is returned without calling the later alternative, and
\* NotFound is returned only when both alternatives returned NotFound.
C3_Alternation ==
    \A e \in Calls :
        /\ e.call.rule = "Statement::parse" =>
               Alternation(e, "VariableDeclaration::parse",
                           "ReturnStatement::parse")
        /\ e.call.rule = "Expression::parse" =>
               Alternation(e, "Literal::parse", "Identifier::parse")

\* A statement whose first alternative returned Error.
C3_Witness ==
    /\ pc = "done"
    /\ \E e \in Calls : /\ e.call.rule = "Statement::parse"
                        /\ e.kids[1].sig = "Error"
                        /\ e.call.sig = "Error"

\* C4 - No silent failure: every call that returns Error has appended at
\* least one error diagnostic to the context during the call.
C4_NoSilentFailure ==
    \A e \in Calls :
        e.call.sig = "Error" =>
            /\ e.call.m1 > e.call.m0
            /\ \E j \in (e.call.m0 + 1)..e.call.m1 :
                   IsError(context.messages[j])

\* A whitespace that returns the Error of its unterminated comment.
C4_Witness ==
    /\ pc = "done"
    /\ last.rule = "Whitespace::parse_multiline"
    /\ last.sig = "Error"
    /\ LastMessageId = "MultilineCommentWithoutEndToken"

\* C5 - A failed parse records exactly one error: when a call returns Error,
\* the context holds exactly one error diagnostic.
C5_OneError ==
    \A e \in Calls :
        e.call.sig = "Error" =>
            CountErrors(SubSeq(context.messages, 1, e.call.m1)) = 1

\* The grammar rules: the public parse functions, as opposed to the private
\* parse_number helpers that run after a prefix has been read.
GrammarRules ==
    {"Identifier::parse", "Identifier::parse_keyword", "Comment::parse_inline",
     "Comment::parse_multiline", "Whitespace::parse_inline",
     "Whitespace::parse_multiline", "Number::parse", "IntegerNumber::parse",
     "Literal::parse", "Expression::parse", "VariableDeclaration::parse",
     "ReturnStatement::parse", "Statement::parse", "MosfetFile::parse"}

\* C6 as stated - the exit offset is strictly greater than the entry offset
\* on Ok and on Error, and equal to it on NotFound, for every grammar rule.
C6_ForwardOrStill_Original ==
    \A e \in Calls :
        e.call.rule \in GrammarRules =>
            /\ e.call.sig \in {"Ok", "Error"} =>
                   e.call.c1.offset > e.call.c0.offset
            /\ e.call.sig = "NotFound" => e.call.c1.offset = e.call.c0.offset

\* C6 - Forward-or-still invariant: the exit offset of a grammar rule is never
\* smaller than the entry offset; it is equal to it on NotFound, and strictly
\* greater on Ok and on Error for every grammar rule but MosfetFile::parse.
C6_ForwardOrStill ==
    \A e \in Calls :
        e.call.rule \in GrammarRules =>
            /\ e.call.c1.offset >= e.call.c0.offset
            /\ e.call.sig = "NotFound" => e.call.c1.offset = e.call.c0.offset
            /\ (e.call.sig \in {"Ok", "Error"}
                    /\ e.call.rule # "MosfetFile::parse")
                   => e.call.c1.offset > e.call.c0.offset

\* A file that is Ok or Error without having consumed anything, around calls
\* that did not find their rule.
C6_Witness ==
    /\ FileDone
    /\ last.c1.offset = last.c0.offset
    /\ last.sig = "Error"
    /\ \E e \in Calls : e.call.sig = "NotFound"

\* C7 - When MosfetFile::parse on a fresh reader returns Ok, the reader is at
\* the end of the input, the span of the file is the whole input, and the
\* spans of the statements do not overlap and start at increasing offsets.
C7_FileOk ==
    (FileDone /\ last.sig = "Ok" /\ last.c0 = Reader_new) =>
        LET statements == last.node.statements
        IN /\ reader.offset = Len(content)
           /\ last.node.span.start_cursor.offset = 0
           /\ last.node.span.end_cursor.offset = Len(content)
           /\ \A i \in 1..Len(statements) :
                  /\ 0 <= statements[i].span.start_cursor.offset
                  /\ statements[i].span.start_cursor.offset
                       < statements[i].span.end_cursor.offset
                  /\ statements[i].span.end_cursor.offset <= Len(content)
           /\ \A i \in 1..(Len(statements) - 1) :
                  /\ statements[i].span.end_cursor.offset
                       <= statements[i + 1].span.start_cursor.offset
                  /\ statements[i].span.start_cursor.offset
                       < statements[i + 1].span.start_cursor.offset

\* A file of two statements or more.
C7_Witness ==
    /\ FileDone
    /\ last.sig = "Ok"
    /\ last.c0 = Reader_new
    /\ Len(last.node.statements) >= 2

\* C8 - If, after a parsed statement, another statement parses and the
\* whitespace between them is absent or not multiline, the parse returns Error
\* with TwoStatementsInSameLineInFile, right there, and builds no File.
C8_SameLine ==
    FileDone =>
        \A j \in 2..(Len(FileKids) \div 2) :
            LET whitespace == FileKids[2 * j - 1]
                statement == FileKids[2 * j]
            IN (/\ statement.sig = "Ok"
                /\ ~(whitespace.sig = "Ok" /\ whitespace.node.is_multiline))
               => /\ last.sig = "Error"
                  /\ LastMessageId = "TwoStatementsInSameLineInFile"
                  /\ Len(FileKids) = 2 * j
                  /\ last.node = NoNode
                  /\ reader = statement.c1

\* Two statements separated by an inline whitespace.
C8_Witness ==
    /\ FileDone
    /\ Len(FileKids) = 4
    /\ FileKids[3].sig = "Ok"
    /\ ~FileKids[3].node.is_multiline
    /\ FileKids[4].sig = "Ok"
    /\ last.sig = "Error"

\* C9 - If at least one statement was parsed and input remains when the
\* statement loop ends with NotFound, the parse returns Error with
\* ExpectedEOFInFile.
C9_ExpectedEOF ==
    (/\ FileDone
     /\ Len(FileKids) >= 4
     /\ FileKids[2].sig = "Ok"
     /\ FileKids[Len(FileKids)].sig = "NotFound"
     /\ remaining_length(FileKids[Len(FileKids)].c1) > 0)
    => /\ last.sig = "Error"
       /\ LastMessageId = "ExpectedEOFInFile"
       /\ IsError(context.messages[Len(context.messages)])

\* Two statements and then text that is no statement.
C9_Witness ==
    /\ FileDone
    /\ Len(FileKids) = 6
    /\ FileKids[4].sig = "Ok"
    /\ FileKids[6].sig = "NotFound"
    /\ remaining_length(reader) > 0
    /\ last.sig = "Error"

OpeningRun(cur) ==
    IF ~continues_with(cur, MULTILINE_COMMENT_TOKEN) THEN 0
    ELSE CHOOSE n \in 0..(Len(content) - cur.offset - 1) :
             /\ \A i \in 1..n : content[cur.offset + 1 + i] = 43
             /\ \/ cur.offset + 1 + n = Len(content)
                \/ content[cur.offset + n + 2] # 43

\* The close token of an opening of n repeat markers.
CloseToken(n) == [i \in 1..(n + 1) |-> IF i <= n THEN 43 ELSE 35]

\* C11 as stated - once Comment::parse_multiline has consumed '#' and one or
\* more '+' it never returns NotFound, and when its close token occurs nowhere
\* in the remaining input it returns Error with MultilineCommentWithoutEndToken
\* and the reader stays just after the opening.
C11_Unterminated_Original ==
    \A e \in Calls :
        (e.call.rule = "Comment::parse_multiline"
             /\ OpeningRun(e.call.c0) >= 1) =>
            LET n == OpeningRun(e.call.c0)
                after == e.call.c0.offset + 1 + n
                closed == \E i \in after..(Len(content) - n - 1) :
                              slice(content, i, i + n + 1) = CloseToken(n)
            IN /\ e.call.sig # "NotFound"
               /\ ~closed =>
                      /\ e.call.sig = "Error"
                      /\ e.call.m1 = e.call.m0 + 1
                      /\ context.messages[e.call.m1].id
                             = "MultilineCommentWithoutEndToken"
                      /\ e.call.c1.offset = after

\* C11 - once Comment::parse_multiline has consumed '#' and one or more '+' it
\* never returns NotFound; an opening directly followed by '#' is an Ok
\* comment; otherwise, when its close token occurs nowhere in the remaining
\* input, it returns Error with MultilineCommentWithoutEndToken and the reader
\* stays just after the opening.
C11_Unterminated ==
    \A e \in Calls :
        (e.call.rule = "Comment::parse_multiline"
             /\ OpeningRun(e.call.c0) >= 1) =>
            LET n == OpeningRun(e.call.c0)
                after == e.call.c0.offset + 1 + n
                closed == \E i \in after..(Len(content) - n - 1) :
                              slice(content, i, i + n + 1) = CloseToken(n)
                at_once == after < Len(content) /\ content[after + 1] = 35
            IN /\ e.call.sig # "NotFound"
               /\ at_once => e.call.sig = "Ok"
               /\ (~closed /\ ~at_once) =>
                      /\ e.call.sig = "Error"
                      /\ e.call.m1 = e.call.m0 + 1
                      /\ context.messages[e.call.m1].id
                             = "MultilineCommentWithoutEndToken"
                      /\ e.call.c1.offset = after

\* An opening of two markers whose message is followed by a shorter close
\* token only.
C11_Witness ==
    /\ pc = "done"
    /\ last.rule = "Comment::parse_multiline"
    /\ last.sig = "Error"
    /\ OpeningRun(last.c0) = 2
    /\ reader.offset = last.c0.offset + 3
    /\ remaining_length(reader) >= 3
    /\ LastMessageId = "MultilineCommentWithoutEndToken"

\* C12 as stated - a multiline comment parsed Ok is its opening of n >= 1
\* markers, its message, then n '+' and '#', and repeated_tokens is n.
C12_EqualMarkers_Original ==
    \A e \in Calls :
        (e.call.rule = "Comment::parse_multiline" /\ e.call.sig = "Ok") =>
            LET n == OpeningRun(e.call.c0)
                opening == slice(content, e.call.c0.offset,
                                 e.call.c0.offset + 1 + n)
            IN /\ n >= 1
               /\ e.call.node.repeated_tokens = n
               /\ slice(content, e.call.c0.offset, e.call.c1.offset)
                      = opening \o Span_content(e.call.node.message)
                                \o CloseToken(n)

\* C12 - a multiline comment parsed Ok has an opening of n >= 1 markers and
\* repeated_tokens n; it is the opening, the message, then n '+' and '#', or,
\* closed at once, the opening and '#' with an empty message.
C12_EqualMarkers ==
    \A e \in Calls :
        (e.call.rule = "Comment::parse_multiline" /\ e.call.sig = "Ok") =>
            LET n == OpeningRun(e.call.c0)
                opening == slice(content, e.call.c0.offset,
                                 e.call.c0.offset + 1 + n)
                text == slice(content, e.call.c0.offset, e.call.c1.offset)
                message == Span_content(e.call.node.message)
            IN /\ n >= 1
               /\ e.call.node.repeated_tokens = n
               /\ Span_content(e.call.node.span) = text
               /\ \/ text = opening \o message \o CloseToken(n)
                  \/ message = <<>> /\ text = opening \o MULTILINE_COMMENT_TOKEN

\* A comment of two markers with a message, closed by its close token.
C12_Witness ==
    /\ pc = "done"
    /\ last.rule = "Comment::parse_multiline"
    /\ last.sig = "Ok"
    /\ last.node.repeated_tokens = 2
    /\ Span_content(last.node.message) # <<>>
    /\ reader.offset = last.c0.offset + 6 + Len(Span_content(last.node.message))

C14_KeywordExact ==
    \A k \in 1..Len(last.log) :
        last.log[k].call.rule = "Identifier::parse_keyword" =>
            LET e == last.log[k]
                start == e.call.c0.offset
                keyword == e.call.args[1]
                lengths ==
                    {n \in 1..(Len(content) - start) :
                        /\ content[start + 1] \in (65..90) \cup {95} \cup (97..122)
                        /\ \A i \in 2..n :
                               content[start + i] \in
                                   (48..57) \cup (65..90) \cup {95} \cup (97..122)}
                maximal == IF lengths = {} THEN 0
                           ELSE CHOOSE n \in lengths : \A m \in lengths : m <= n
            IN /\ e.call.sig \in {"Ok", "NotFound"}
               /\ e.call.sig = "Ok" <=>
                      (maximal > 0
                           /\ slice(content, start, start + maximal) = keyword)
               /\ e.call.sig = "Ok" => e.call.c1.offset = start + maximal
               /\ e.call.sig = "NotFound" => e.call.c1 = e.call.c0
               /\ e.call.m1 = e.call.m0

\* An identifier that starts with the keyword and goes on: not the keyword.
C14_Witness ==
    /\ pc = "done"
    /\ last.rule = "Identifier::parse_keyword"
    /\ last.sig = "NotFound"
    /\ continues_with(last.c0, last.args[1])
    /\ reader = last.c0
    /\ \E e \in Calls : /\ e.call.rule = "Identifier::parse"
                        /\ e.call.c1.offset > last.c0.offset + Len(last.args[1])

\* C15 - for each of the prefixes 0b, 0o, 0d and 0x, IntegerNumber::parse
\* returns Error when the prefix is directly followed by the separator
\* (NumberWithSeparatorAfterPrefix) or by anything that is no digit of the
\* radix, the end of the input included (NumberWithoutDigitsAfterPrefix).
C15_PrefixWithoutDigits ==
    \A e \in Calls :
        e.call.rule = "IntegerNumber::parse" =>
            \A radix \in {"Binary", "Octal", "Decimal", "Hexadecimal"} :
                LET prefix == Radix_prefix_str(radix)
                    digits == CASE radix = "Binary" -> 48..49
                                [] radix = "Octal" -> 48..55
                                [] radix = "Decimal" -> 48..57
                                [] radix = "Hexadecimal" ->
                                       (48..57) \cup (65..70) \cup (97..102)
                    next == e.call.c0.offset + Len(prefix)
                    at_end == next = Len(content)
                IN (/\ continues_with(e.call.c0, prefix)
                    /\ (at_end \/ content[next + 1] \notin digits))
                   => /\ e.call.sig = "Error"
                      /\ e.call.m1 = e.call.m0 + 1
                      /\ IsError(context.messages[e.call.m1])
                      /\ context.messages[e.call.m1].id =
                             IF ~at_end /\ content[next + 1] = 95
                             THEN "NumberWithSeparatorAfterPrefix"
                             ELSE "NumberWithoutDigitsAfterPrefix"

\* A decimal prefix, not at the start of the text, followed by a separator.
C15_Witness ==
    /\ pc = "done"
    /\ last.rule = "IntegerNumber::parse"
    /\ last.sig = "Error"
    /\ last.c0.offset > 0
    /\ continues_with(last.c0, DECIMAL_PREFIX \o <<95>>)
    /\ LastMessageId = "NumberWithSeparatorAfterPrefix"

\* The calls of the digit runs: parse_number of IntegerNumber and of Number;
\* the first argument of the call is the interval of the digits.
DigitRuns ==
    {e \in Calls : e.call.rule \in {"IntegerNumber::parse_number",
                                    "Number::parse_number"}}

IsDigit(byte, interval) ==
    \E k \in 1..Len(interval) : interval[k][1] <= byte /\ byte <= interval[k][2]

\* C16 as stated - in a parsed digit run every separator is directly
\* followed by a digit: a trailing or a doubled separator ends the number at
\* the last digit before it, with the reader just after that digit and the
\* digits read so far kept as the number.
C16_SeparatorThenDigit_Original ==
    \A e \in DigitRuns :
        e.call.sig = "Ok" =>
            LET text == slice(content, e.call.c0.offset, e.call.c1.offset)
            IN /\ Span_content(e.call.node.span) = text
               /\ text # <<>>
               /\ \A i \in 1..Len(text) :
                      text[i] = 95 =>
                          i < Len(text) /\ IsDigit(text[i + 1], e.call.args[1])

\* C16 - in a parsed digit run every run of separators is followed by a
\* digit: trailing separators end the number at the last digit before them,
\* with the reader just after that digit, before the first of them, and the
\* digits read so far are kept as the number.
C16_SeparatorThenDigit ==
    \A e \in DigitRuns :
        e.call.sig = "Ok" =>
            LET text == slice(content, e.call.c0.offset, e.call.c1.offset)
            IN /\ Span_content(e.call.node.span) = text
               /\ text # <<>>
               /\ IsDigit(text[1], e.call.args[1])
               /\ IsDigit(text[Len(text)], e.call.args[1])
               /\ \A i \in 1..Len(text) :
                      text[i] = 95 \/ IsDigit(text[i], e.call.args[1])

\* A number ended before its two trailing separators.
C16_Witness ==
    /\ pc = "done"
    /\ last.rule = "IntegerNumber::parse"
    /\ last.sig = "Ok"
    /\ Span_content(last.node.digits) # <<>>
    /\ remaining_length(reader) = 2
    /\ content[reader.offset + 1] = 95
    /\ content[reader.offset + 2] = 95

\* C17 - a run of one or more separators between two groups of digits is part
\* of the number: a parsed digit run never ends before digits, nor before
\* separators that are followed by a digit, and its span extends over them.
C17_SeparatorRuns ==
    \A e \in DigitRuns :
        e.call.sig = "Ok" =>
            LET end == e.call.c1.offset
            IN /\ e.call.node.span.end_cursor.offset = end
               /\ e.call.node.span.start_cursor.offset = e.call.c0.offset
               /\ e.call.rule = "IntegerNumber::parse_number" =>
                      e.call.node.digits = e.call.node.span
               /\ \A k \in 0..(Len(content) - end - 1) :
                      ~(/\ \A i \in 1..k : content[end + i] = 95
                        /\ IsDigit(content[end + k + 1], e.call.args[1]))

\* A number with two separators in a row between its digits.
C17_Witness ==
    /\ pc = "done"
    /\ last.rule = "IntegerNumber::parse"
    /\ last.sig = "Ok"
    /\ \E i \in 1..(Len(Span_content(last.node.digits)) - 2) :
           /\ Span_content(last.node.digits)[i] = 95
           /\ Span_content(last.node.digits)[i + 1] = 95
           /\ Span_content(last.node.digits)[i + 2] # 95

\* C18 - with the warning enabled, an IntegerNumber::parse that returns Ok
\* records exactly one NumberWithLeadingZeroes warning iff its digits, the
\* prefix excluded, begin with '0' and are not the single char '0'; otherwise
\* it records no message.
C18_LeadingZeroes ==
    \A e \in Calls :
        (/\ e.call.rule = "IntegerNumber::parse"
         /\ e.call.sig = "Ok"
         /\ ~context.ignore.number_leading_zeroes) =>
            LET digits == Span_content(e.call.node.digits)
            IN IF digits[1] = 48 /\ digits # <<48>>
               THEN /\ e.call.m1 = e.call.m0 + 1
                    /\ context.messages[e.call.m1]
                           = generate_warning_log("NumberWithLeadingZeroes")
               ELSE e.call.m1 = e.call.m0

\* A prefixed number with leading zeroes, and its warning.
C18_Witness ==
    /\ pc = "done"
    /\ last.rule = "IntegerNumber::parse"
    /\ last.sig = "Ok"
    /\ last.node.has_prefix
    /\ Len(Span_content(last.node.digits)) >= 2
    /\ Span_content(last.node.digits)[1] = 48
    /\ LastMessageId = "NumberWithLeadingZeroes"

\* C19 - when the flag number_leading_zeroes of the ignore configuration is
\* set, the messages of the context never hold a NumberWithLeadingZeroes
\* warning, and no call has appended one.
C19_IgnoredWarning ==
    context.ignore.number_leading_zeroes =>
        /\ \A i \in 1..Len(context.messages) :
               context.messages[i].id # "NumberWithLeadingZeroes"
        /\ \A e \in Calls :
               e.call.rule = "IntegerNumber::parse_number" =>
                   e.call.m1 = e.call.m0 + (IF e.call.sig = "Error" THEN 1 ELSE 0)

\* A number with leading zeroes parsed with the warning ignored.
C19_Witness ==
    /\ pc = "done"
    /\ context.ignore.number_leading_zeroes
    /\ last.rule = "IntegerNumber::parse"
    /\ last.sig = "Ok"
    /\ Len(Span_content(last.node.digits)) >= 2
    /\ Span_content(last.node.digits)[1] = 48
    /\ context.messages = <<>>

\* C20 - warnings never affect control flow: the rule of the session, run
\* from the same entry state with the flag number_leading_zeroes reversed,
\* gives the same signal, the same node and the same final reader; the
\* messages of the two runs differ in their warnings only.
C20_WarningsOrthogonal ==
    pc = "done" =>
        LET twin == parse(last.rule,
                          [cur |-> last.c0,
                           msgs |-> SubSeq(context.messages, 1, last.m0),
                           ignore |-> [number_leading_zeroes |->
                                          ~context.ignore.number_leading_zeroes],
                           log |-> <<>>, kids |-> <<>>],
                          last.args)
        IN /\ twin.sig = last.sig
           /\ twin.node = last.node
           /\ twin.s.cur = reader
           /\ SelectSeq(twin.s.msgs, IsError)
                  = SelectSeq(context.messages, IsError)

\* A number that is followed by more text, parsed with its warning recorded:
\* the run with the flag reversed records none.
C20_Witness ==
    /\ pc = "done"
    /\ ~context.ignore.number_leading_zeroes
    /\ last.rule = "IntegerNumber::parse"
    /\ last.sig = "Ok"
    /\ last.m1 = last.m0 + 1
    /\ context.messages[last.m1].kind = "warning"
    /\ remaining_length(reader) > 0

C22_CursorConsistent ==
    pc = "ready" =>
        \A cursor \in {reader} \cup {c.cursor : c \in saved} :
            LET before == slice(content, 0, cursor.offset)
                breaks == {i \in 1..Len(before) : before[i] = 10}
                start == IF breaks = {} THEN 0
                         ELSE CHOOSE i \in breaks : \A j \in breaks : j <= i
            IN /\ cursor.offset \in 0..Len(content)
               /\ cursor.char_offset
                      = Cardinality({i \in 1..Len(before) :
                                        before[i] \div 64 # 2})
               /\ cursor.line = 1 + Cardinality(breaks)
               /\ cursor.column
                      = 1 + Cardinality({i \in (start + 1)..Len(before) :
                                            before[i] \div 64 # 2})

\* The reader restored to a cursor saved after a line break and a three-byte
\* char, from a position further on.
C22_Witness ==
    /\ pc = "ready"
    /\ last.op = "restore"
    /\ belongs_to(last.arg, "reader")
    /\ last.c0.offset > reader.offset
    /\ reader.line = 2
    /\ reader.column = 2
    /\ reader.char_offset < reader.offset

\* C23 - restoring a Reader to a cursor that is not of this Reader is
\* rejected: the call does not complete and the cursor of the reader is not
\* set to the foreign cursor.
C23_ForeignRestoreRejected ==
    (last.op = "restore" /\ ~belongs_to(last.arg, "reader")) =>
        /\ ~last.ok
        /\ reader = last.c0

\* C26 - Span::lines returns the slice of the text that contains the span,
\* begins right after the nearest line break before the start of the span (or
\* at the start of the text) and ends right before the first line break at or
\* after the end of the span (or at the end of the text); a zero-length span
\* on a line break gives the line that this line break ends.
C26_Lines ==
    last.op = "lines" =>
        LET start == last.arg.start_cursor.offset
            end == last.arg.end_cursor.offset
            start_index == last.result.start_index
            end_index == last.result.end_index
        IN /\ 0 <= start_index /\ start_index <= start
           /\ end <= end_index /\ end_index <= Len(content)
           /\ start_index = 0 \/ content[start_index] = 10
           /\ \A i \in (start_index + 1)..start : content[i] # 10
           /\ end_index = Len(content) \/ content[end_index + 1] = 10
           /\ \A i \in (end + 1)..end_index : content[i] # 10
           /\ (start = end /\ end < Len(content) /\ content[end + 1] = 10) =>
                  end_index = end

\* A zero-length span on the line break that ends a line of one char or more.
C26_Witness ==
    /\ last.op = "lines"
    /\ last.arg.start_cursor = last.arg.end_cursor
    /\ last.arg.end_cursor.offset < Len(content)
    /\ content[last.arg.end_cursor.offset + 1] = 10
    /\ last.result.start_index < last.result.end_index
    /\ last.result.end_index = last.arg.end_cursor.offset

\* C24 - span correctness: for every call of a grammar rule that returns Ok,
\* the span of the node starts at the cursor of the reader at the entry of the
\* call and ends at the cursor at its exit, so the content of the span is
\* exactly the text the rule consumed.
C24_SpanCorrect ==
    \A k \in 1..Len(last.log) :
        last.log[k].call.sig = "Ok" =>
            /\ last.log[k].call.node.span.start_cursor = last.log[k].call.c0
            /\ last.log[k].call.node.span.end_cursor = last.log[k].call.c1
            /\ Span_content(last.log[k].call.node.span)
                   = slice(content, last.log[k].call.c0.offset,
                           last.log[k].call.c1.offset)

\* A number with a prefix, parsed from a position inside the text: its span
\* starts at the prefix, the span of its digit run after it.
C24_Witness ==
    /\ pc = "done"
    /\ last.rule = "Number::parse"
    /\ last.sig = "Ok"
    /\ last.c0.offset > 0
    /\ continues_with(last.c0, BINARY_PREFIX)
    /\ last.node.span.start_cursor = last.c0
    /\ remaining_length(reader) > 0
    /\ \E k \in 1..Len(last.log) :
           /\ last.log[k].call.rule = "Number::parse_number"
           /\ last.log[k].call.c0.offset = last.c0.offset + 2

\* C27 - cursor_manager restores the reader to the cursor saved at entry if
\* and only if the body returns NotFound; when the body returns Ok or Error
\* the reader is left where the body left it, and the signal of the body is
\* returned unchanged.
C27_RestoreIffNotFound ==
    \A k \in 1..Len(last.log) :
        last.log[k].call.rule \in
            {"Identifier::parse", "Comment::parse_inline",
             "Comment::parse_multiline", "Whitespace::parse_inline",
             "Whitespace::parse_multiline", "Number::parse_number",
             "Number::parse", "IntegerNumber::parse_number",
             "IntegerNumber::parse", "VariableDeclaration::parse",
             "ReturnStatement::parse", "MosfetFile::parse"} =>
            /\ last.log[k].call.body.sig \in {"Ok", "NotFound", "Error"}
            /\ last.log[k].call.sig = last.log[k].call.body.sig
            /\ IF last.log[k].call.body.sig = "NotFound"
               THEN last.log[k].call.c1 = last.log[k].call.c0
               ELSE last.log[k].call.c1 = last.log[k].call.body.cur

\* A file parse with a body that had moved the reader when it returned
\* NotFound, and one that had moved it when it returned Error.
C27_Witness ==
    /\ pc = "done"
    /\ last.rule = "MosfetFile::parse"
    /\ \E k \in 1..Len(last.log) :
           /\ last.log[k].call.body.sig = "NotFound"
           /\ last.log[k].call.body.cur.offset > last.log[k].call.c0.offset
           /\ last.log[k].call.c1 = last.log[k].call.c0
    /\ \E k \in 1..Len(last.log) :
           /\ last.log[k].call.body.sig = "Error"
           /\ last.log[k].call.body.cur.offset > last.log[k].call.c0.offset
           /\ last.log[k].call.c1 = last.log[k].call.body.cur

\* The cursor c of a text, as a cursor of the text that starts at cursor c0.
ShiftCursor(c, c0) ==
    Cursor_new(c.offset - c0.offset, c.char_offset - c0.char_offset,
               c.line - c0.line + 1,
               IF c.line = c0.line THEN c.column - c0.column + 1 ELSE c.column)

ShiftSpan(span, c0) ==
    Span_new(ShiftCursor(span.start_cursor, c0), ShiftCursor(span.end_cursor, c0))

\* The node with every cursor of it, and of its sub-nodes, shifted.
RECURSIVE Shift(_, _)
Shift(node, c0) ==
    CASE node.kind \in {"Identifier", "Number"} ->
             [node EXCEPT !.span = ShiftSpan(node.span, c0)]
      [] node.kind = "Comment" ->
             [node EXCEPT !.span = ShiftSpan(node.span, c0),
                          !.message = ShiftSpan(node.message, c0)]
      [] node.kind = "Whitespace" ->
             [node EXCEPT
                 !.span = ShiftSpan(node.span, c0),
                 !.elements =
                     [i \in 1..Len(node.elements) |->
                         IF node.elements[i].type = "Whitespace"
                         THEN WhitespaceElement_Whitespace(
                                  ShiftSpan(node.elements[i].span, c0))
                         ELSE WhitespaceElement_Comment(
                                  Shift(node.elements[i].comment, c0))]]
      [] node.kind = "IntegerNumber" ->
             [node EXCEPT !.span = ShiftSpan(node.span, c0),
                          !.digits = ShiftSpan(node.digits, c0)]
      [] node.kind \in {"Literal", "Expression", "Statement"} ->
             [node EXCEPT !.span = ShiftSpan(node.span, c0),
                          !.node = Shift(node.node, c0)]
      [] node.kind = "VariableDeclaration" ->
             [node EXCEPT
                 !.span = ShiftSpan(node.span, c0),
                 !.name = Shift(node.name, c0),
                 !.expression = Shift(node.expression, c0),
                 !.pre_name_whitespace = Shift(node.pre_name_whitespace, c0),
                 !.pre_expression_whitespace =
                     Shift(node.pre_expression_whitespace, c0),
                 !.pre_assign_operator_whitespace =
                     Shift(node.pre_assign_operator_whitespace, c0)]
      [] node.kind = "ReturnStatement" ->
             [node EXCEPT
                 !.span = ShiftSpan(node.span, c0),
                 !.expression = Shift(node.expression, c0),
                 !.pre_expression_whitespace =
                     Shift(node.pre_expression_whitespace, c0)]
      [] node.kind = "MosfetFile" ->
             [node EXCEPT
                 !.span = ShiftSpan(node.span, c0),
                 !.statements = [i \in 1..Len(node.statements) |->
                                    Shift(node.statements[i], c0)]]

\* C25 - idempotent re-derivation: for every node built by a call that
\* returned Ok, the same rule called on the text of the span of the node
\* alone, from offset 0, returns Ok, consumes the whole text and builds a node
\* equal to the original with its cursors shifted to the start of the span.
C25_Rederivation ==
    pc = "reparsed" =>
        /\ last.sig = "Ok"
        /\ last.c0 = Reader_new
        /\ reader.offset = Len(content)
        /\ last.node = Shift(last.orig.node, last.orig.node.span.start_cursor)

\* The digit run of a number with a prefix and a separator, from inside a
\* text, parsed again alone.
C25_Witness ==
    /\ pc = "reparsed"
    /\ last.rule = "IntegerNumber::parse_number"
    /\ last.sig = "Ok"
    /\ last.orig.c0.offset > 0
    /\ last.node.has_prefix
    /\ \E i \in 1..Len(content) : content[i] = 95

\* The text holds a char of MULTILINE_WHITESPACE_CHARS: U+000A to U+000D,
\* U+0085 (194 133), U+2028 and U+2029 (226 128 168, 226 128 169).
HasMultilineChar(text) ==
    \E i \in 1..Len(text) :
        \/ text[i] \in 10..13
        \/ i < Len(text) /\ text[i] = 194 /\ text[i + 1] = 133
        \/ /\ i + 1 < Len(text)
           /\ text[i] = 226
           /\ text[i + 1] = 128
           /\ text[i + 2] \in {168, 169}

\* The elements lie one after the other from the start to the end of the span.
ElementsTile(node) ==
    LET spanOf(i) == IF node.elements[i].type = "Whitespace"
                     THEN node.elements[i].span
                     ELSE node.elements[i].comment.span
    IN /\ node.elements # <<>>
       /\ spanOf(1).start_cursor = node.span.start_cursor
       /\ spanOf(Len(node.elements)).end_cursor = node.span.end_cursor
       /\ \A i \in 1..(Len(node.elements) - 1) :
              spanOf(i).end_cursor = spanOf(i + 1).start_cursor

\* C28 - Whitespace::parse_multiline that returns Ok sets is_multiline exactly
\* when the text it consumed holds a char of MULTILINE_WHITESPACE_CHARS in a
\* run of raw whitespace, or a comment of the multiline type whose message
\* starts and ends on different lines; the elements make up the whole text.
C28_IsMultiline ==
    \A k \in 1..Len(last.log) :
        LET call == last.log[k].call
            elements == call.node.elements
        IN (call.rule = "Whitespace::parse_multiline" /\ call.sig = "Ok") =>
               /\ ElementsTile(call.node)
               /\ call.node.is_multiline <=>
                      \E i \in 1..Len(elements) :
                          \/ /\ elements[i].type = "Whitespace"
                             /\ HasMultilineChar(Span_content(elements[i].span))
                          \/ /\ elements[i].type = "Comment"
                             /\ elements[i].comment.is_multiline_type
                             /\ elements[i].comment.message.start_cursor.line
                                    # elements[i].comment.message.end_cursor.line

\* A whitespace made of a comment of the multiline type on one line and of a
\* run of spaces: not multiline; and one that is multiline by its comment only.
C28_Witness ==
    /\ pc = "done"
    /\ last.rule = "MosfetFile::parse"
    /\ \E k \in 1..Len(last.log) :
           LET call == last.log[k].call
           IN /\ call.rule = "Whitespace::parse_multiline"
              /\ call.sig = "Ok"
              /\ ~call.node.is_multiline
              /\ \E i \in 1..Len(call.node.elements) :
                     /\ call.node.elements[i].type = "Comment"
                     /\ call.node.elements[i].comment.is_multiline_type

\* C29 - when MosfetFile::parse returns Ok with two or more statements, no two
\* statements share a source line: the line of the start cursor of each
\* statement after the first is strictly greater than the line of the end
\* cursor of the statement before it.
C29_NoSharedLine ==
    (pc = "done" /\ last.rule = "MosfetFile::parse" /\ last.sig = "Ok") =>
        \A i \in 1..(Len(last.node.statements) - 1) :
            last.node.statements[i + 1].span.start_cursor.line
                > last.node.statements[i].span.end_cursor.line

\* What the records of the calls show of the loops: each turn that made a
\* loop go on left the reader further than it found it.
LoopsAdvance(call, kids) ==
    /\ call.rule = "MosfetFile::parse" =>
           /\ call.sig \in {"Ok", "Error"}
           /\ call.body.sig \in {"Ok", "Error"}
           /\ \A i \in 1..Len(kids) :
                  (kids[i].rule = "Statement::parse" /\ kids[i].sig = "Ok") =>
                      /\ kids[i].c1.offset > kids[i].c0.offset
                      /\ \A j \in (i + 1)..Len(kids) :
                             kids[j].c0.offset >= kids[i].c1.offset
    /\ call.rule \in {"Whitespace::parse_inline",
                      "Whitespace::parse_multiline"} =>
           /\ \A i \in 1..Len(kids) :
                  kids[i].sig = "Ok" =>
                      /\ kids[i].c1.offset > kids[i].c0.offset
                      /\ \A j \in (i + 1)..Len(kids) :
                             kids[j].c0.offset >= kids[i].c1.offset
           /\ call.sig = "Ok" =>
                  \A i \in 1..Len(call.node.elements) :
                      LET e == call.node.elements[i]
                          span == IF e.type = "Whitespace" THEN e.span
                                  ELSE e.comment.span
                      IN span.end_cursor.offset > span.start_cursor.offset
    /\ (/\ call.rule \in {"IntegerNumber::parse_number",
                          "Number::parse_number"}
        /\ call.sig = "Ok") =>
           LET digits == Span_content(call.node.span)
           IN /\ digits # <<>>
              /\ digits[1] # 95
              /\ digits[Len(digits)] # 95
              /\ call.c1.offset = call.c0.offset + Len(digits)
    /\ (call.rule = "Comment::parse_multiline" /\ call.sig = "Ok") =>
           /\ call.node.repeated_tokens >= 1
           /\ call.node.message.start_cursor.offset
                  = call.c0.offset + 1 + call.node.repeated_tokens

\* The result of MosfetFile::parse is Ok or Error, and in every call made to
\* produce it the loops advanced.
FileEnds(r) ==
    /\ r.sig \in {"Ok", "Error"}
    /\ r.s.log # <<>>
    /\ \A k \in 1..Len(r.s.log) :
           LoopsAdvance(r.s.log[k].call, r.s.log[k].kids)

\* C30 - MosfetFile::parse terminates on every finite text: called on any
\* text it has a result, which is Ok or Error and never NotFound, and every
\* turn that made one of its loops go on (the statements of the file, the
\* elements of a whitespace, the separators and digits of a number, the repeat
\* tokens of a multiline comment) moved the offset of the reader strictly
\* forward, so that the length of the text bounds the number of turns.
C30_Terminates ==
    /\ pc = "ready" => FileEnds(MosfetFile_parse(entry))
    /\ \A k \in 1..Len(last.log) :
           LoopsAdvance(last.log[k].call, last.log[k].kids)

\* A file of two statements, the first with a number of two groups of digits:
\* the loop of the statements and the loop of the digits both went on.
C30_Witness ==
    /\ pc = "done"
    /\ last.rule = "MosfetFile::parse"
    /\ last.sig = "Ok"
    /\ Len(last.node.statements) = 2
    /\ \E k \in 1..Len(last.log) :
           /\ last.log[k].call.rule = "Number::parse_number"
           /\ last.log[k].call.sig = "Ok"
           /\ \E i \in 1..Len(Span_content(last.log[k].call.node.span)) :
                  Span_content(last.log[k].call.node.span)[i] = 95

====
